---- MODULE Spec2Model ----
(***************************************************************************)
(* A model of alexacart's matching-and-resolution engine:                  *)
(*   - the preference store (grocery_items, aliases, preferred_products)   *)
(*     with the constraints declared in models.py,                         *)
(*   - the matcher functions of matching/matcher.py,                       *)
(*   - the preference routes of routes/preferences.py that call them.      *)
(*                                                                         *)
(* Persistence.  The store is SQLite behind the SQLAlchemy ORM             *)
(* (config.py: database_url = sqlite:///...).  A handler works in one ORM  *)
(* session; db.flush() writes the pending changes as individual row        *)
(* statements, db.commit() flushes and makes them durable, and a handler   *)
(* that raises leaves through get_db's db.close(), which rolls back to the *)
(* last commit.  Two facts about a flush are modelled because the rank     *)
(* code depends on them:                                                   *)
(*   1. UNIQUE constraints (aliases.alias, grocery_items.name and          *)
(*      (grocery_item_id, rank)) are checked after every single row write; *)
(*      promote_product's own comment ("Use a temporary rank to avoid      *)
(*      UNIQUE constraint violation during swap") relies on this.          *)
(*   2. Within one flush the unit of work emits the UPDATEs of already     *)
(*      persistent rows in primary-key order and the INSERTs after them;   *)
(*      the order in which Python assigned the attributes (the loops'      *)
(*      order_by) is not the order of the row writes.                      *)
(***************************************************************************)
EXTENDS Integers, Sequences, FiniteSets, TLC

\* ---------------------------------------------------------------- bounds
MaxTextLen == 3      \* longest raw text fed to normalize_text
MaxItems == 2        \* grocery_items rows
MaxProducts == 3     \* preferred_products rows
MaxId == 3           \* largest primary key handed out in a table
MaxPrefs == 2        \* preferred products of the item being resolved
MaxSearch == 2       \* results of one general search
MaxList == 3         \* entries of the fetched shopping list
MaxRank == 3         \* largest rank a stored product is allowed to reach

\* ------------------------------------------------------------- constants
None == "None"       \* Python None for text columns
NoId == 0            \* Python None where an integer id or rank is expected
TempRank == 0 - 1    \* promote_product's temporary out-of-range rank

Max(S) == CHOOSE x \in S : \A y \in S : y <= x
Min(S) == CHOOSE x \in S : \A y \in S : x <= y

\* ------------------------------------------------------------------ text
\* A text is a sequence of one-character strings.
Chars == {"a", "A", "Z", " "}
Whitespace == {" "}

lower_char(c) == CASE c = "A" -> "a" [] c = "Z" -> "z" [] OTHER -> c

str_lower(t) == [i \in 1..Len(t) |-> lower_char(t[i])]

RECURSIVE lstrip(_)
lstrip(t) == IF t # <<>> /\ Head(t) \in Whitespace THEN lstrip(Tail(t)) ELSE t

RECURSIVE rstrip(_)
rstrip(t) ==
    IF t # <<>> /\ t[Len(t)] \in Whitespace
    THEN rstrip(SubSeq(t, 1, Len(t) - 1))
    ELSE t

str_strip(t) == rstrip(lstrip(t))

\* a plausible slip: drop one blank from each end instead of all of them
normalize_text_strip_one(text) ==
    LET l == IF text # <<>> /\ Head(text) \in Whitespace THEN Tail(text) ELSE text
        r == IF l # <<>> /\ l[Len(l)] \in Whitespace THEN SubSeq(l, 1, Len(l) - 1) ELSE l
    IN str_lower(r)

\* text.strip().lower()
normalize_text(text) == str_lower(str_strip(text))

RECURSIVE SeqsUpTo(_, _)
SeqsUpTo(S, n) ==
    IF n = 0 THEN {<<>>}
    ELSE LET shorter == SeqsUpTo(S, n - 1)
         IN shorter \cup {Append(s, c) : s \in {x \in shorter : Len(x) = n - 1}, c \in S}

RawTexts == SeqsUpTo(Chars, MaxTextLen)

\* raw texts typed into the preference forms / found on the shopping list
StoreTexts == {<<"a">>, <<" ", "A">>, <<"Z">>}
\* list texts looked up: the form texts and one that only starts like an alias
MatchTexts == StoreTexts \cup {<<"a", "Z">>}
\* the one item name used where only the ranks of an item's products matter
RankTexts == {<<" ", "A">>}
\* the one product name used where the products only have to be there
OneName == {"P1"}
ProductNames == {"P1", "P2", "P3"}
ProductUrls == {"u1"}

VARIABLES
    grocery_items,        \* rows of table grocery_items: [id, name]
    aliases,              \* rows of table aliases: [id, grocery_item_id, alias]
    preferred_products,   \* rows of table preferred_products
    last,                 \* the last call: its name, arguments, exception, return value
    raw,                  \* normalize_text: the input text
    norm1,                \* normalize_text(raw)
    norm2,                \* normalize_text(norm1)
    rs_text,              \* _search_single_item: proposal.alexa_text
    rs_pc,                \* _search_single_item: where the coroutine stands
    rs_match,             \* the MatchResult of find_match
    pending,              \* the gathered tasks that have not returned yet
    responses,            \* what the catalog answered to each task
    all_results,          \* asyncio.gather's result list, by task position
    finished,             \* the tasks in the order they returned
    seen_in_stock,        \* ids of the preferences whose last_seen_in_stock was set
    active_searches,      \* session.active_searches
    searched_count,       \* session.searched_count
    proposal,             \* the ProposalItem being filled in
    ro_pc,                \* _run_order: where the background task stands
    session_status,       \* session.status
    session_error,        \* session.error
    instacart_client,     \* session.instacart_client: "none", "open" or "closed"
    alexa_client,         \* the AlexaClient of _run_order: "none", "open" or "closed"
    alexa_items,          \* the shopping list as get_items returned it
    proposals,            \* session.proposals
    total_items,          \* session.total_items
    search_pc,            \* where each proposal's _search_single_item stands
    search_resp,          \* what the catalog answered to each proposal's search
    commit_items_data,    \* session.commit_items_data: the submitted form rows, by index
    commit_queue,         \* session.commit_queue: the events put so far
    active_commits,       \* session.active_commits
    commit_pc,            \* _run_commit: where the background task stands
    item_pc,              \* where each _commit_single_item stands
    commit_results,       \* asyncio.gather's results of _run_commit, by index
    commit_counter,       \* commit_counter[0]
    cart,                 \* the add_to_cart calls that returned True
    marked,               \* the mark_complete calls of the commit, in order
    learned,              \* indexes whose _learn_from_result returned and was committed
    order_log,            \* rows of table order_log
    rq_method,            \* the AlexaClient method under way
    rq_pc,                \* _request_with_retry: where the call stands
    rq_attempt,           \* _request_with_retry: attempt
    rq_statuses,          \* the status codes the list service answered, in order
    rq_delays,            \* the delays slept, in order
    rq_refreshes,         \* the credential sources asked after a 401, in order
    rq_result,            \* what the method gave its caller
    ic_op,                \* the InstacartClient method under way
    ic_pc,                \* where the catalog call stands
    ic_statuses,          \* the status codes the catalog answered, in order
    ic_result,            \* what the method gave its caller
    stream_pc,            \* commit_progress_stream: where the generator stands
    stream_read,          \* the events the generator has taken from the queue
    popped                \* the session was popped from _sessions

storeVars == <<grocery_items, aliases, preferred_products, last>>
textVars == <<raw, norm1, norm2>>
resolveVars == <<rs_text, rs_pc, rs_match, pending, responses, all_results, finished,
                 seen_in_stock, active_searches, searched_count, proposal>>
sessionVars == <<ro_pc, session_status, session_error, instacart_client, alexa_client,
                 alexa_items, proposals, total_items, search_pc, search_resp>>
commitVars == <<commit_items_data, commit_queue, active_commits, commit_pc, item_pc,
                commit_results, commit_counter, cart, marked, learned, order_log>>
requestVars == <<rq_method, rq_pc, rq_attempt, rq_statuses, rq_delays, rq_refreshes,
                 rq_result, ic_op, ic_pc, ic_statuses, ic_result>>
streamVars == <<stream_pc, stream_read, popped>>
laterVars == <<commitVars, requestVars, streamVars>>
otherVars == <<textVars, resolveVars, sessionVars, laterVars>>
vars == <<grocery_items, aliases, preferred_products, last, raw, norm1, norm2,
          rs_text, rs_pc, rs_match, pending, responses, all_results, finished,
          seen_in_stock, active_searches, searched_count, proposal,
          ro_pc, session_status, session_error, instacart_client, alexa_client,
          alexa_items, proposals, total_items, search_pc, search_resp,
          commit_items_data, commit_queue, active_commits, commit_pc, item_pc,
          commit_results, commit_counter, cart, marked, learned, order_log,
          rq_method, rq_pc, rq_attempt, rq_statuses, rq_delays, rq_refreshes,
          rq_result, ic_op, ic_pc, ic_statuses, ic_result,
          stream_pc, stream_read, popped>>

NotYet == <<"-">>     \* a text result not computed yet (no text contains "-")

\* ----------------------------------------------------------------- store
\* models.py: id INTEGER PRIMARY KEY on SQLite is the rowid: largest id + 1
NextId(tbl) == IF tbl = {} THEN 1 ELSE Max({r.id : r \in tbl}) + 1

NoRow == [id |-> NoId, grocery_item_id |-> NoId, rank |-> NoId,
          product_name |-> None, product_url |-> None]

ProductsOf(pp, gid) == {p \in pp : p.grocery_item_id = gid}

\* UniqueConstraint("grocery_item_id", "rank")
UniqueRank(pp) ==
    \A p, q \in pp :
        (p.id # q.id /\ p.grocery_item_id = q.grocery_item_id) => p.rank # q.rank

\* aliases.alias is unique=True
UniqueAlias(al) == \A a, b \in al : a.id # b.id => a.alias # b.alias

\* grocery_items.name is unique=True
UniqueName(gi) == \A a, b \in gi : a.id # b.id => a.name # b.name

\* One flush of changed preferred_products rows: one UPDATE per row, in
\* primary-key order, the constraint checked after each.
RECURSIVE flush_updates(_, _)
flush_updates(pp, dirty) ==
    IF dirty = {} THEN [ok |-> TRUE, pp |-> pp]
    ELSE LET i == Min({d.id : d \in dirty})
             d == CHOOSE x \in dirty : x.id = i
             written == {p \in pp : p.id # i} \cup {d}
         IN IF UniqueRank(written)
            THEN flush_updates(written, dirty \ {d})
            ELSE [ok |-> FALSE, pp |-> pp]

\* the INSERT of one new preferred_products row
flush_insert(pp, row) ==
    IF UniqueRank(pp \cup {row})
    THEN [ok |-> TRUE, pp |-> pp \cup {row}]
    ELSE [ok |-> FALSE, pp |-> pp]

\* the rows that changed, as a flush sees them
Changed(pp, newrows) == {r \in newrows : r \notin pp}

\* ---------------------------------------------------------------- matcher
\* The rows a "deduplicate by URL first, then by name" query can return with
\* .first(): the query has no ORDER BY, so any matching row may come first.
dedup_matches(pp, grocery_item_id, product_name, product_url) ==
    LET by_url == IF product_url # None
                  THEN {p \in ProductsOf(pp, grocery_item_id) : p.product_url = product_url}
                  ELSE {}
        by_name == {p \in ProductsOf(pp, grocery_item_id) : p.product_name = product_name}
    IN IF by_url # {} THEN by_url ELSE by_name

\* the choices of `existing`: a matching row, or NoRow when nothing matches
existing_choices(pp, grocery_item_id, product_name, product_url) ==
    LET m == dedup_matches(pp, grocery_item_id, product_name, product_url)
    IN IF m = {} THEN {NoRow} ELSE m

\* existing.product_name = ...; if product_url: existing.product_url = ...
update_fields(existing, product_name, product_url) ==
    [existing EXCEPT !.product_name = product_name,
                     !.product_url = IF product_url # None THEN product_url ELSE @]

\* a plausible slip: always insert, no look-up of an existing row
add_preferred_product_no_dedup(pp, grocery_item_id, product_name, product_url, rank, existing) ==
    LET mine == ProductsOf(pp, grocery_item_id)
        r == IF rank # NoId THEN rank
             ELSE IF mine = {} THEN 1 ELSE Max({p.rank : p \in mine}) + 1
        new == [id |-> NextId(pp), grocery_item_id |-> grocery_item_id, rank |-> r,
                product_name |-> product_name, product_url |-> product_url]
        f == flush_updates(pp, {[p EXCEPT !.rank = @ + 1] : p \in {q \in mine : q.rank >= r}})
        g == flush_insert(f.pp, new)
    IN IF f.ok /\ g.ok
       THEN [exc |-> "none", pp |-> g.pp, ret |-> new.id]
       ELSE [exc |-> "IntegrityError", pp |-> pp, ret |-> NoId]

\* add_preferred_product; rank = NoId stands for rank=None.  `existing` is
\* the row the dedup query returned (NoRow for None).
add_preferred_product(pp, grocery_item_id, product_name, product_url, rank, existing) ==
    IF existing # NoRow
    THEN LET f == flush_updates(pp, Changed(pp, {update_fields(existing, product_name, product_url)}))
         IN [exc |-> "none", pp |-> f.pp, ret |-> existing.id]
    ELSE LET mine == ProductsOf(pp, grocery_item_id)
             r == IF rank # NoId THEN rank
                  ELSE IF mine = {} THEN 1 ELSE Max({p.rank : p \in mine}) + 1
             \* for p in existing_at_rank: p.rank += 1
             shifted == {[p EXCEPT !.rank = @ + 1] : p \in {q \in mine : q.rank >= r}}
             new == [id |-> NextId(pp), grocery_item_id |-> grocery_item_id, rank |-> r,
                     product_name |-> product_name, product_url |-> product_url]
             \* db.add(product); db.flush(): the UPDATEs, then the INSERT
             f == flush_updates(pp, shifted)
             g == flush_insert(f.pp, new)
         IN IF f.ok /\ g.ok
            THEN [exc |-> "none", pp |-> g.pp, ret |-> new.id]
            ELSE [exc |-> "IntegrityError", pp |-> pp, ret |-> NoId]

\* a plausible slip: the two ranks are exchanged and flushed once, without
\* the temporary rank
promote_product_direct(pp, product_id) ==
    LET found == {p \in pp : p.id = product_id}
    IN IF found = {} THEN [exc |-> "none", pp |-> pp, ret |-> NoId]
       ELSE LET product == CHOOSE p \in found : TRUE
                aboves == {p \in ProductsOf(pp, product.grocery_item_id) :
                              p.rank = product.rank - 1}
                f == flush_updates(pp, {[product EXCEPT !.rank = @ - 1]}
                                       \cup {[p EXCEPT !.rank = product.rank] : p \in aboves})
            IN IF product.rank <= 1 THEN [exc |-> "none", pp |-> pp, ret |-> NoId]
               ELSE IF f.ok THEN [exc |-> "none", pp |-> f.pp, ret |-> NoId]
               ELSE [exc |-> "IntegrityError", pp |-> pp, ret |-> NoId]

\* promote_product
promote_product(pp, product_id) ==
    LET found == {p \in pp : p.id = product_id}
    IN IF found = {} THEN [exc |-> "none", pp |-> pp, ret |-> NoId]
       ELSE LET product == CHOOSE p \in found : TRUE
            IN IF product.rank <= 1 THEN [exc |-> "none", pp |-> pp, ret |-> NoId]
               ELSE LET aboves == {p \in ProductsOf(pp, product.grocery_item_id) :
                                      p.rank = product.rank - 1}
                    IN IF aboves # {}
                       THEN LET above == CHOOSE p \in aboves : TRUE
                                old_rank == product.rank
                                new_rank == above.rank
                                \* above.rank = -1; db.flush()
                                f1 == flush_updates(pp, {[above EXCEPT !.rank = TempRank]})
                                \* product.rank = new_rank; db.flush()
                                f2 == flush_updates(f1.pp, {[product EXCEPT !.rank = new_rank]})
                                \* above.rank = old_rank; db.flush()
                                f3 == flush_updates(f2.pp, {[above EXCEPT !.rank = old_rank]})
                            IN IF f1.ok /\ f2.ok /\ f3.ok
                               THEN [exc |-> "none", pp |-> f3.pp, ret |-> NoId]
                               ELSE [exc |-> "IntegrityError", pp |-> pp, ret |-> NoId]
                       ELSE LET f == flush_updates(pp, {[product EXCEPT !.rank = @ - 1]})
                            IN IF f.ok
                               THEN [exc |-> "none", pp |-> f.pp, ret |-> NoId]
                               ELSE [exc |-> "IntegrityError", pp |-> pp, ret |-> NoId]

\* make_product_top_choice; `existing` as in add_preferred_product
make_product_top_choice(pp, grocery_item_id, product_name, product_url, existing) ==
    IF existing # NoRow
    THEN LET updated == update_fields(existing, product_name, product_url)
         IN IF existing.rank = 1
            THEN LET f == flush_updates(pp, Changed(pp, {updated}))
                 IN [exc |-> "none", pp |-> f.pp, ret |-> existing.id]
            ELSE LET \* the query for `others` autoflushes the field updates
                     f0 == flush_updates(pp, Changed(pp, {updated}))
                     others == {p \in ProductsOf(pp, grocery_item_id) : p.rank < existing.rank}
                     \* for p in others: p.rank += 1;  existing.rank = 1;  db.flush()
                     dirty == {[p EXCEPT !.rank = @ + 1] : p \in others}
                              \cup {[updated EXCEPT !.rank = 1]}
                     f == flush_updates(f0.pp, dirty)
                 IN IF f.ok
                    THEN [exc |-> "none", pp |-> f.pp, ret |-> existing.id]
                    ELSE [exc |-> "IntegrityError", pp |-> pp, ret |-> NoId]
    ELSE add_preferred_product(pp, grocery_item_id, product_name, product_url, 1, NoRow)


\* .order_by(PreferredProduct.rank).all()
RECURSIVE order_by_rank(_)
order_by_rank(rows) ==
    IF rows = {} THEN <<>>
    ELSE LET m == CHOOSE p \in rows : \A q \in rows : p.rank <= q.rank
         IN <<m>> \o order_by_rank(rows \ {m})

NoMatch == [is_known |-> FALSE, grocery_item_id |-> NoId, preferred_products |-> <<>>]

\* a plausible slip: the products come back in descending rank order
find_match_descending(al, pp, alexa_text) ==
    LET normalized == normalize_text(alexa_text)
        found == {a \in al : a.alias = normalized}
    IN IF found # {}
       THEN LET alias == CHOOSE a \in found : TRUE
                asc == order_by_rank(ProductsOf(pp, alias.grocery_item_id))
            IN [is_known |-> TRUE, grocery_item_id |-> alias.grocery_item_id,
                preferred_products |-> [i \in 1..Len(asc) |-> asc[Len(asc) + 1 - i]]]
       ELSE NoMatch

\* find_match
find_match(al, pp, alexa_text) ==
    LET normalized == normalize_text(alexa_text)
        found == {a \in al : a.alias = normalized}
    IN IF found # {}
       THEN LET alias == CHOOSE a \in found : TRUE
            IN [is_known |-> TRUE, grocery_item_id |-> alias.grocery_item_id,
                preferred_products |-> order_by_rank(ProductsOf(pp, alias.grocery_item_id))]
       ELSE NoMatch

\* a plausible slip: the alias column without unique=True
insert_alias_unchecked(al, row) == [ok |-> TRUE, al |-> al \cup {row}]

\* the INSERT of one aliases row under the unique constraint on alias
insert_alias(al, row) ==
    IF UniqueAlias(al \cup {row})
    THEN [ok |-> TRUE, al |-> al \cup {row}]
    ELSE [ok |-> FALSE, al |-> al]

\* a plausible slip: the item is created without its self alias
create_grocery_item_no_alias(gi, al, name) ==
    LET normalized == normalize_text(name)
        existing == {g \in gi : g.name = normalized}
    IN IF existing # {}
       THEN [exc |-> "none", gi |-> gi, al |-> al, ret |-> (CHOOSE g \in existing : TRUE).id]
       ELSE LET item == [id |-> NextId(gi), name |-> normalized]
            IN [exc |-> "none", gi |-> gi \cup {item}, al |-> al, ret |-> item.id]

\* create_grocery_item
create_grocery_item(gi, al, name) ==
    LET normalized == normalize_text(name)
        existing == {g \in gi : g.name = normalized}
    IN IF existing # {}
       THEN [exc |-> "none", gi |-> gi, al |-> al, ret |-> (CHOOSE g \in existing : TRUE).id]
       ELSE LET item == [id |-> NextId(gi), name |-> normalized]
                alias == [id |-> NextId(al), grocery_item_id |-> item.id, alias |-> normalized]
                ins == insert_alias(al, alias)
            IN IF UniqueName(gi \cup {item}) /\ ins.ok
               THEN [exc |-> "none", gi |-> gi \cup {item}, al |-> ins.al, ret |-> item.id]
               ELSE [exc |-> "IntegrityError", gi |-> gi, al |-> al, ret |-> NoId]

\* a plausible slip: an alias owned by another item is re-pointed
add_alias_repoint(al, grocery_item_id, alias_text) ==
    LET normalized == normalize_text(alias_text)
        found == {a \in al : a.alias = normalized}
    IN IF found # {}
       THEN LET existing == CHOOSE a \in found : TRUE
            IN [exc |-> "none",
                al |-> (al \ {existing}) \cup {[existing EXCEPT !.grocery_item_id = grocery_item_id]},
                ret |-> existing.id]
       ELSE LET alias == [id |-> NextId(al), grocery_item_id |-> grocery_item_id,
                          alias |-> normalized]
            IN [exc |-> "none", al |-> al \cup {alias}, ret |-> alias.id]

\* add_alias
add_alias(al, grocery_item_id, alias_text) ==
    LET normalized == normalize_text(alias_text)
        found == {a \in al : a.alias = normalized}
    IN IF found # {}
       THEN LET existing == CHOOSE a \in found : TRUE
            IN IF existing.grocery_item_id = grocery_item_id
               THEN [exc |-> "none", al |-> al, ret |-> existing.id]
               ELSE [exc |-> "ValueError", al |-> al, ret |-> NoId]
       ELSE LET alias == [id |-> NextId(al), grocery_item_id |-> grocery_item_id,
                          alias |-> normalized]
                ins == insert_alias(al, alias)
            IN IF ins.ok
               THEN [exc |-> "none", al |-> ins.al, ret |-> alias.id]
               ELSE [exc |-> "IntegrityError", al |-> al, ret |-> NoId]


\* ------------------------------------------------------------------ Init
NoProposal == [grocery_item_id |-> NoId, product_url |-> None, item_id |-> None,
               size |-> None, status |-> "Pending", status_class |-> "new",
               in_stock |-> TRUE, alternatives |-> <<>>]

\* no order session is resolving anything
ResolveIdle ==
    /\ rs_text = NotYet
    /\ rs_pc = "idle"
    /\ rs_match = NoMatch
    /\ pending = {}
    /\ responses = <<>>
    /\ all_results = <<>>
    /\ finished = <<>>
    /\ seen_in_stock = {}
    /\ active_searches = {}
    /\ searched_count = 0
    /\ proposal = NoProposal

\* the shopping list before get_items returned it
NotFetched == <<[item_id |-> NoId, text |-> NotYet]>>

\* no order was started: _sessions is empty
SessionIdle ==
    /\ ro_pc = "none"
    /\ session_status = "none"
    /\ session_error = None
    /\ instacart_client = "none"
    /\ alexa_client = "none"
    /\ alexa_items = NotFetched
    /\ proposals = <<>>
    /\ total_items = 0
    /\ search_pc = <<>>
    /\ search_resp = <<>>

\* no commit was asked for: the OrderSession as its dataclass defaults make it
CommitIdle ==
    /\ commit_items_data = <<>>
    /\ commit_queue = None
    /\ active_commits = {}
    /\ commit_pc = "none"
    /\ item_pc = <<>>
    /\ commit_results = <<>>
    /\ commit_counter = 0
    /\ cart = <<>>
    /\ marked = <<>>
    /\ learned = {}
    /\ order_log = <<>>

\* no call of the list service or of the catalog is under way
RequestIdle ==
    /\ rq_method = None
    /\ rq_pc = "idle"
    /\ rq_attempt = 0
    /\ rq_statuses = <<>>
    /\ rq_delays = <<>>
    /\ rq_refreshes = <<>>
    /\ rq_result = None
    /\ ic_op = None
    /\ ic_pc = "idle"
    /\ ic_statuses = <<>>
    /\ ic_result = None

\* no client listens to the commit events, nothing was popped
StreamIdle ==
    /\ stream_pc = "none"
    /\ stream_read = 0
    /\ popped = FALSE

\* init_db(): Base.metadata.create_all on an empty database
Init ==
    /\ grocery_items = {}
    /\ aliases = {}
    /\ preferred_products = {}
    /\ last = [op |-> "init", args |-> <<>>, exc |-> "none", ret |-> NoId, again |-> FALSE]
    /\ raw = NotYet
    /\ norm1 = NotYet
    /\ norm2 = NotYet
    /\ ResolveIdle
    /\ SessionIdle
    /\ CommitIdle
    /\ RequestIdle
    /\ StreamIdle

\* the model stops handing out rows at its bounds
WithinBounds(gi, al, pp) ==
    /\ Cardinality(gi) <= MaxItems
    /\ Cardinality(pp) <= MaxProducts
    /\ \A r \in gi \cup al \cup pp : r.id <= MaxId
    /\ \A p \in pp : p.rank <= MaxRank

ItemIds == {g.id : g \in grocery_items}
UrlArgs == ProductUrls \cup {None}

\* the record of a call; `again` tells that it repeats the call before it
Call(op, args, exc, ret) ==
    [op |-> op, args |-> args, exc |-> exc, ret |-> ret,
     again |-> (last.op = op /\ last.args = args)]

\* ------------------------------------------------- routes/preferences.py
\* POST /preferences/items
create_item(name) ==
    LET r == create_grocery_item(grocery_items, aliases, name)
    IN /\ WithinBounds(r.gi, r.al, preferred_products)
       /\ grocery_items' = r.gi
       /\ aliases' = r.al
       /\ last' = Call("create_grocery_item", <<name>>, r.exc, r.ret)
       /\ UNCHANGED <<preferred_products, otherVars>>

\* DELETE /preferences/items/{item_id}: db.delete(item) cascades to the
\* item's aliases and preferred products (cascade="all, delete-orphan")
delete_item(item_id) ==
    /\ item_id \in ItemIds
    /\ grocery_items' = {g \in grocery_items : g.id # item_id}
    /\ aliases' = {a \in aliases : a.grocery_item_id # item_id}
    /\ preferred_products' = {p \in preferred_products : p.grocery_item_id # item_id}
    /\ last' = Call("delete_item", <<item_id>>, "none", NoId)
    /\ UNCHANGED otherVars

\* POST /preferences/items/{item_id}/aliases; a ValueError is swallowed
add_item_alias(item_id, alias) ==
    /\ item_id \in ItemIds
    /\ LET r == add_alias(aliases, item_id, alias)
       IN /\ WithinBounds(grocery_items, r.al, preferred_products)
          /\ aliases' = r.al
          /\ last' = Call("add_alias", <<item_id, alias>>, r.exc, r.ret)
    /\ UNCHANGED <<grocery_items, preferred_products, otherVars>>

\* DELETE /preferences/aliases/{alias_id}
delete_alias(alias_id) ==
    /\ \E a \in aliases : a.id = alias_id
    /\ aliases' = {a \in aliases : a.id # alias_id}
    /\ last' = Call("delete_alias", <<alias_id>>, "none", NoId)
    /\ UNCHANGED <<grocery_items, preferred_products, otherVars>>

\* the call add_preferred_product(db, item_id, name, url, rank) followed by
\* db.commit(); an exception leaves the store at the last commit
call_add_preferred_product(item_id, product_name, product_url, rank) ==
    /\ item_id \in ItemIds
    /\ \E existing \in existing_choices(preferred_products, item_id, product_name, product_url) :
          LET r == add_preferred_product(preferred_products, item_id, product_name,
                                         product_url, rank, existing)
          IN /\ WithinBounds(grocery_items, aliases, r.pp)
             /\ preferred_products' = r.pp
             /\ last' = Call("add_preferred_product",
                             <<item_id, product_name, product_url, rank>>, r.exc, r.ret)
    /\ UNCHANGED <<grocery_items, aliases, otherVars>>

\* POST /preferences/items/{item_id}/products: rank is left at None
add_item_product(item_id, product_name, product_url) ==
    call_add_preferred_product(item_id, product_name, product_url, NoId)

\* _learn_from_result's unknown-item call: add_preferred_product(..., rank=1)
add_product_at_rank_1(item_id, product_name, product_url) ==
    call_add_preferred_product(item_id, product_name, product_url, 1)

\* POST /preferences/products/{product_id}/move-up
move_product_up(product_id) ==
    /\ \E p \in preferred_products : p.id = product_id
    /\ LET r == promote_product(preferred_products, product_id)
       IN /\ preferred_products' = r.pp
          /\ last' = Call("promote_product", <<product_id>>, r.exc, NoId)
    /\ UNCHANGED <<grocery_items, aliases, otherVars>>

\* for i, p in enumerate(remaining, 1): p.rank = i
renumber(remaining) == {[remaining[i] EXCEPT !.rank = i] : i \in 1..Len(remaining)}

\* DELETE /preferences/products/{product_id}: the delete is committed, then
\* the remaining products are renumbered and committed again
delete_product(product_id) ==
    /\ \E product \in preferred_products :
        /\ product.id = product_id
        /\ LET grocery_item_id == product.grocery_item_id
               committed == preferred_products \ {product}
               remaining == order_by_rank(ProductsOf(committed, grocery_item_id))
               f == flush_updates(committed, Changed(committed, renumber(remaining)))
           IN /\ preferred_products' = IF f.ok THEN f.pp ELSE committed
              /\ last' = Call("delete_product", <<product_id>>,
                              IF f.ok THEN "none" ELSE "IntegrityError", NoId)
    /\ UNCHANGED <<grocery_items, aliases, otherVars>>

\* POST /preferences/items/merge
merge_items(source_id, target_id) ==
    /\ source_id # target_id
    /\ source_id \in ItemIds
    /\ target_id \in ItemIds
    /\ LET source_aliases == {a \in aliases : a.grocery_item_id = source_id}
           source_products == order_by_rank(ProductsOf(preferred_products, source_id))
           \* for alias in source.aliases: re-point, or delete a duplicate
           dup(a) == \E e \in aliases : e.alias = a.alias /\ e.grocery_item_id = target_id
           al1 == {a \in aliases : a \notin source_aliases}
                  \cup {[a EXCEPT !.grocery_item_id = target_id] :
                           a \in {x \in source_aliases : ~dup(x)}}
           target_products == ProductsOf(preferred_products, target_id)
           next_rank == IF target_products = {} THEN 1
                        ELSE Max({p.rank : p \in target_products}) + 1
           \* for product in source.preferred_products: move it behind the target's
           pp1 == {p \in preferred_products : p.grocery_item_id # source_id}
                  \cup {[source_products[i] EXCEPT !.grocery_item_id = target_id,
                                                   !.rank = next_rank + i - 1] :
                           i \in 1..Len(source_products)}
           \* db.delete(source): the delete cascades over the loaded collections
           \* source.aliases and source.preferred_products, which still hold the
           \* rows that were only given a new grocery_item_id
           cascade_aliases == {a.id : a \in source_aliases}
           cascade_products == {source_products[i].id : i \in 1..Len(source_products)}
       IN /\ grocery_items' = {g \in grocery_items : g.id # source_id}
          /\ aliases' = {a \in al1 : a.id \notin cascade_aliases}
          /\ preferred_products' = {p \in pp1 : p.id \notin cascade_products}
    /\ last' = Call("merge_items", <<source_id, target_id>>, "none", NoId)
    /\ UNCHANGED otherVars

\* the call make_product_top_choice(db, item_id, name, url) followed by
\* db.commit(); an exception leaves the store at the last commit
call_make_product_top_choice(item_id, product_name, product_url) ==
    /\ item_id \in ItemIds
    /\ \E existing \in existing_choices(preferred_products, item_id, product_name, product_url) :
          LET r == make_product_top_choice(preferred_products, item_id, product_name,
                                           product_url, existing)
          IN /\ WithinBounds(grocery_items, aliases, r.pp)
             /\ preferred_products' = r.pp
             /\ last' = Call("make_product_top_choice",
                             <<item_id, product_name, product_url>>, r.exc, r.ret)
    /\ UNCHANGED <<grocery_items, aliases, otherVars>>

\* the call find_match(db, text): a read, the store is left alone
call_find_match(alexa_text) ==
    /\ last' = Call("find_match", <<alexa_text>>, "none",
                    find_match(aliases, preferred_products, alexa_text))
    /\ UNCHANGED <<grocery_items, aliases, preferred_products, otherVars>>

Ids == 1..MaxId

\* The preference store under its rank operations: an item is created, its
\* preferred products are added, promoted, made top choice and deleted, and
\* list texts are looked up.
NextRanks ==
    \/ \E name \in RankTexts : create_item(name)
    \/ \E item_id \in Ids, n \in ProductNames, u \in UrlArgs : add_item_product(item_id, n, u)
    \/ \E item_id \in Ids, n \in ProductNames, u \in UrlArgs : add_product_at_rank_1(item_id, n, u)
    \/ \E product_id \in Ids : move_product_up(product_id)
    \/ \E product_id \in Ids : delete_product(product_id)
    \/ \E item_id \in Ids, n \in ProductNames, u \in UrlArgs :
          call_make_product_top_choice(item_id, n, u)
    \/ \E t \in MatchTexts : call_find_match(t)

SpecRanks == Init /\ [][NextRanks]_vars

\* The preference store under its item and alias operations; items get a
\* product so that the cascades of delete_item and merge_items have rows.
NextAliases ==
    \/ \E name \in StoreTexts : create_item(name)
    \/ \E item_id \in Ids : delete_item(item_id)
    \/ \E item_id \in Ids, alias \in StoreTexts : add_item_alias(item_id, alias)
    \/ \E alias_id \in Ids : delete_alias(alias_id)
    \/ \E source_id \in Ids, target_id \in Ids : merge_items(source_id, target_id)
    \/ \E item_id \in Ids, n \in OneName : add_item_product(item_id, n, None)

SpecAliases == Init /\ [][NextAliases]_vars

\* ------------------------------------------------- normalize_text, alone
InitText ==
    /\ grocery_items = {}
    /\ aliases = {}
    /\ preferred_products = {}
    /\ last = [op |-> "init", args |-> <<>>, exc |-> "none", ret |-> NoId, again |-> FALSE]
    /\ raw \in RawTexts
    /\ norm1 = NotYet
    /\ norm2 = NotYet
    /\ ResolveIdle
    /\ SessionIdle
    /\ CommitIdle
    /\ RequestIdle
    /\ StreamIdle

Normalize ==
    /\ norm1 = NotYet
    /\ norm1' = normalize_text(raw)
    /\ UNCHANGED <<raw, norm2, storeVars, resolveVars, sessionVars, laterVars>>

NormalizeAgain ==
    /\ norm1 # NotYet
    /\ norm2 = NotYet
    /\ norm2' = normalize_text(norm1)
    /\ UNCHANGED <<raw, norm1, storeVars, resolveVars, sessionVars, laterVars>>

NextText == Normalize \/ NormalizeAgain

SpecText == InitText /\ [][NextText]_vars

\* ------------------------------------------------- instacart/client.py
\* the catalog is the environment: what its calls answer is chosen freely
CatalogItemIds == {"i1", "i2"}
\* the identifiers of the products the preferences stand for
PreferredItemIds == {"i1"}
CatalogUrls == {"u1"}
CatalogSizes == {"s"}

\* a ProductResult, as far as the resolver reads it
ProductResults(ids, urls, sizes) ==
    [item_id : ids \cup {None}, product_url : urls,
     in_stock : BOOLEAN, size : sizes]

\* a call that raised, a call that returned, a call still under way
Raised == [kind |-> "raise", items |-> <<>>]
\* _graphql_get on a 401: raise InstacartAuthError
AuthExpired == [kind |-> "auth", items |-> <<>>]
is_exception(resp) == resp.kind \in {"raise", "auth"}
\* f"Error: {e}"
error_status(resp) ==
    IF resp.kind = "auth" THEN "Error: Instacart session expired (401)"
    ELSE "Error: search failed"
Answer(items) == [kind |-> "ok", items |-> items]
Waiting == [kind |-> "wait", items |-> <<>>]

\* get_product_details(url): raises, returns None, or returns the product
\* under the URL that was asked for
get_product_details(product_url) ==
    {Raised, AuthExpired, Answer(<<>>)}
        \cup {Answer(<<r>>) : r \in ProductResults(PreferredItemIds, {product_url},
                                                 CatalogSizes \cup {None})}

\* search_products(query, limit): raises or returns at most `limit` results
search_products(ids, limit, sizes) ==
    {Raised, AuthExpired} \cup {Answer(s) : s \in SeqsUpTo(ProductResults(ids, CatalogUrls \cup {None}, sizes),
                                              limit)}

\* ------------------------------------------------------ routes/order.py
ProductOption(r, product_url, source) ==
    [item_id |-> r.item_id, product_url |-> product_url, in_stock |-> r.in_stock,
     size |-> r.size, source |-> source]

\* what the catalog may answer to the lookup of one preference
pref_lookup(pref) ==
    IF pref.product_url # None
    THEN get_product_details(pref.product_url)
    ELSE search_products(PreferredItemIds, 1, CatalogSizes \cup {None})

\* _fetch_pref after its await: None when the call raised or found nothing,
\* and None as well when the result has no size, because `result.size or
\* pref.size` then reads an attribute PreferredProduct does not have and the
\* AttributeError is swallowed by `except Exception`
fetch_pref(pref, resp) ==
    IF is_exception(resp) \/ resp.items = <<>>
    THEN [kind |-> "none", items |-> <<>>]
    ELSE LET result == resp.items[1]
         IN IF result.size = None
            THEN [kind |-> "none", items |-> <<>>]
            ELSE [kind |-> "option",
                  items |-> <<ProductOption(result,
                                IF result.product_url # None THEN result.product_url
                                ELSE pref.product_url, "preference")>>]

\* the search options of a list of results
as_search_options(results) ==
    [i \in 1..Len(results) |-> ProductOption(results[i], results[i].product_url, "search")]

\* the proposal takes its product from the first option
apply_best(prop, all_options, status, status_class) ==
    LET best == all_options[1]
    IN [prop EXCEPT !.product_url = best.product_url, !.item_id = best.item_id,
                    !.size = best.size, !.in_stock = best.in_stock,
                    !.alternatives = all_options,
                    !.status = status, !.status_class = status_class]

no_results(prop) == [prop EXCEPT !.status = "No results", !.status_class = "error"]

\* a plausible slip: the two classifications the wrong way round
combine_swapped(prop, pref_results, search_results_raw) ==
    LET got == {i \in 1..Len(pref_results) : pref_results[i].kind = "option"}
        pref_ids == UNION {{pref_results[i].items[1].item_id}
                              \cup (IF pref_results[i].items[1].product_url # None
                                    THEN {pref_results[i].items[1].product_url} ELSE {})
                           : i \in got}
        in_stock_pref(r) == r.kind = "option" /\ r.items[1].in_stock
        picked == SelectSeq(pref_results, in_stock_pref)
        pref_options == [i \in 1..Len(picked) |-> picked[i].items[1]]
        keep(r) == /\ r.in_stock
                   /\ ~ (\/ r.item_id \in pref_ids
                         \/ (r.product_url # None /\ r.product_url \in pref_ids))
        search_options == IF search_results_raw.kind = "list"
                          THEN as_search_options(SelectSeq(search_results_raw.items, keep))
                          ELSE <<>>
        all_options == pref_options \o search_options
    IN IF all_options # <<>>
       THEN IF pref_options # <<>>
            THEN apply_best(prop, all_options, "Substituted", "substituted")
            ELSE apply_best(prop, all_options, "Matched", "matched")
       ELSE no_results(prop)

\* lines 419-474: the gathered results become the proposal
combine(prop, pref_results, search_results_raw) ==
    LET got == {i \in 1..Len(pref_results) : pref_results[i].kind = "option"}
        pref_ids == UNION {{pref_results[i].items[1].item_id}
                              \cup (IF pref_results[i].items[1].product_url # None
                                    THEN {pref_results[i].items[1].product_url} ELSE {})
                           : i \in got}
        in_stock_pref(r) == r.kind = "option" /\ r.items[1].in_stock
        picked == SelectSeq(pref_results, in_stock_pref)
        pref_options == [i \in 1..Len(picked) |-> picked[i].items[1]]
        keep(r) == /\ r.in_stock
                   /\ ~ (\/ r.item_id \in pref_ids
                         \/ (r.product_url # None /\ r.product_url \in pref_ids))
        search_options == IF search_results_raw.kind = "list"
                          THEN as_search_options(SelectSeq(search_results_raw.items, keep))
                          ELSE <<>>
        all_options == pref_options \o search_options
    IN IF all_options # <<>>
       THEN IF pref_options # <<>>
            THEN apply_best(prop, all_options, "Matched", "matched")
            ELSE apply_best(prop, all_options, "Substituted", "substituted")
       ELSE no_results(prop)

\* a plausible slip: the results are taken whether in stock or not
apply_search_results_unfiltered(prop, results, status, status_class) ==
    IF results # <<>>
    THEN [apply_best(prop, as_search_options(results), status, status_class)
             EXCEPT !.in_stock = TRUE]
    ELSE no_results(prop)

\* _apply_search_results: the in-stock results, the first one chosen
apply_search_results(prop, results, status, status_class) ==
    LET stocked(r) == r.in_stock
        in_stock == SelectSeq(results, stocked)
    IN IF in_stock # <<>>
       THEN [apply_best(prop, as_search_options(in_stock), status, status_class)
                EXCEPT !.in_stock = TRUE]
       ELSE no_results(prop)

\* ------------------------------------------- _search_single_item, stepwise
\* the list texts resolved: one that is an alias and one that is none
ResolveTexts == {<<" ", "A">>, <<"Z">>}
PrefNames == <<"P1", "P2", "P3", "P4">>

\* the preferred products of item 1 after k of them were learned: the first
\* by URL, the second put on top of it, the others appended
RECURSIVE prefs_store(_)
prefs_store(k) ==
    IF k = 0 THEN {}
    ELSE add_preferred_product(prefs_store(k - 1), 1, PrefNames[k],
                               IF k = 1 THEN "u1" ELSE None,
                               IF k = 2 THEN 1 ELSE NoId, NoRow).pp

\* a preference store as the preference routes leave it, and a session that
\* is about to resolve one proposal
InitResolve ==
    /\ LET made == create_grocery_item({}, {}, <<" ", "A">>)
       IN /\ grocery_items = made.gi
          /\ aliases = made.al
    /\ \E k \in 0..MaxPrefs : preferred_products = prefs_store(k)
    /\ last = [op |-> "init", args |-> <<>>, exc |-> "none", ret |-> NoId, again |-> FALSE]
    /\ raw = NotYet
    /\ norm1 = NotYet
    /\ norm2 = NotYet
    /\ rs_text \in ResolveTexts
    /\ rs_pc = "idle"
    /\ rs_match = NoMatch
    /\ pending = {}
    /\ responses = <<>>
    /\ all_results = <<>>
    /\ finished = <<>>
    /\ seen_in_stock = {}
    /\ active_searches = {}
    /\ searched_count = 0
    /\ proposal = NoProposal
    /\ SessionIdle
    /\ CommitIdle
    /\ RequestIdle
    /\ StreamIdle

\* up to the first await: find_match, then either every preference lookup
\* and the search are launched together, or the search alone is asked
StartResolve ==
    /\ rs_pc = "idle"
    /\ LET match == find_match(aliases, preferred_products, rs_text)
           n == Len(match.preferred_products)
       IN /\ rs_match' = match
          /\ proposal' = [proposal EXCEPT !.grocery_item_id = match.grocery_item_id]
          /\ IF match.is_known /\ n > 0
             THEN /\ rs_pc' = "gather"
                  /\ pending' = 1..(n + 1)
                  /\ responses' = [i \in 1..(n + 1) |-> Waiting]
                  /\ all_results' = [i \in 1..(n + 1) |-> Waiting]
             ELSE /\ rs_pc' = "search"
                  /\ UNCHANGED <<pending, responses, all_results>>
    /\ active_searches' = active_searches \cup {rs_text}
    /\ UNCHANGED <<rs_text, finished, seen_in_stock, searched_count, storeVars, textVars, sessionVars, laterVars>>

\* the lookup of the preference at position k returns
PrefDone(k, resp) ==
    /\ rs_pc = "gather"
    /\ k \in pending
    /\ k <= Len(rs_match.preferred_products)
    /\ resp \in pref_lookup(rs_match.preferred_products[k])
    /\ responses' = [responses EXCEPT ![k] = resp]
    /\ all_results' = [all_results EXCEPT ![k] = fetch_pref(rs_match.preferred_products[k], resp)]
    /\ seen_in_stock' = IF resp.kind = "ok" /\ resp.items # <<>> /\ resp.items[1].in_stock
                        THEN seen_in_stock \cup {rs_match.preferred_products[k].id}
                        ELSE seen_in_stock
    /\ pending' = pending \ {k}
    /\ finished' = Append(finished, k)
    /\ UNCHANGED <<rs_text, rs_pc, rs_match, active_searches, searched_count, proposal,
                   storeVars, textVars, sessionVars, laterVars>>

\* the general search of the gather returns (return_exceptions=True)
SearchDone(resp) ==
    /\ rs_pc = "gather"
    /\ Len(rs_match.preferred_products) + 1 \in pending
    /\ LET k == Len(rs_match.preferred_products) + 1
       IN /\ responses' = [responses EXCEPT ![k] = resp]
          /\ all_results' = [all_results EXCEPT ![k] =
                                IF is_exception(resp)
                                THEN [kind |-> "exception", items |-> <<>>]
                                ELSE [kind |-> "list", items |-> resp.items]]
          /\ pending' = pending \ {k}
          /\ finished' = Append(finished, k)
    /\ UNCHANGED <<rs_text, rs_pc, rs_match, seen_in_stock, active_searches, searched_count,
                   proposal, storeVars, textVars, sessionVars, laterVars>>

\* a plausible slip: gather without return_exceptions, so that the exception
\* of the search ends the resolution in the except branch
Combine_raising ==
    /\ rs_pc = "gather"
    /\ pending = {}
    /\ LET n == Len(rs_match.preferred_products)
       IN proposal' = IF all_results[n + 1].kind = "exception"
                      THEN [proposal EXCEPT !.status = "Error: search failed",
                                            !.status_class = "error"]
                      ELSE combine(proposal, SubSeq(all_results, 1, n), all_results[n + 1])
    /\ rs_pc' = "done"
    /\ active_searches' = active_searches \ {rs_text}
    /\ searched_count' = searched_count + 1
    /\ UNCHANGED <<rs_text, rs_match, pending, responses, all_results, finished, seen_in_stock,
                   storeVars, textVars, sessionVars, laterVars>>

\* gather returns: the results are combined and the resolution ends
Combine ==
    /\ rs_pc = "gather"
    /\ pending = {}
    /\ LET n == Len(rs_match.preferred_products)
       IN proposal' = combine(proposal, SubSeq(all_results, 1, n), all_results[n + 1])
    /\ rs_pc' = "done"
    /\ active_searches' = active_searches \ {rs_text}
    /\ searched_count' = searched_count + 1
    /\ UNCHANGED <<rs_text, rs_match, pending, responses, all_results, finished, seen_in_stock,
                   storeVars, textVars, sessionVars, laterVars>>

\* an unknown item, or one without preferences: the search alone, whose
\* exception ends the resolution in the handler's except branch
ApplySearch(resp) ==
    /\ rs_pc = "search"
    /\ responses' = <<resp>>
    /\ finished' = <<1>>
    /\ proposal' = IF is_exception(resp)
                   THEN [proposal EXCEPT !.status = error_status(resp),
                                         !.status_class = "error"]
                   ELSE apply_search_results(proposal, resp.items, "New item", "new")
    /\ rs_pc' = "done"
    /\ active_searches' = active_searches \ {rs_text}
    /\ searched_count' = searched_count + 1
    /\ UNCHANGED <<rs_text, rs_match, pending, all_results, seen_in_stock, storeVars, textVars, sessionVars, laterVars>>

SearchAnswers == search_products(CatalogItemIds, MaxSearch, CatalogSizes)

NextResolve ==
    \/ StartResolve
    \/ \E k \in 1..Len(rs_match.preferred_products) :
          \E resp \in pref_lookup(rs_match.preferred_products[k]) : PrefDone(k, resp)
    \/ \E resp \in SearchAnswers : SearchDone(resp)
    \/ Combine
    \/ \E resp \in SearchAnswers : ApplySearch(resp)

SpecResolve == InitResolve /\ [][NextResolve]_vars

\* ====================================================== the order session
\* A session runs _run_order as a background task.  The preference store of
\* these sessions holds grocery items and aliases and no preferred product,
\* so that every proposal is resolved by the general search alone
\* (_search_single_item's else branch), the one path on which a resolution
\* can end in its except branch.

\* the texts found on the shopping list
ListTexts == {<<"a">>, <<" ", "A">>, <<"Z">>, <<"a", "Z">>}
\* get_items(): the active entries, each with its id (here its position)
AlexaLists ==
    {[k \in 1..Len(texts) |-> [item_id |-> k, text |-> texts[k]]] :
        texts \in SeqsUpTo(ListTexts, MaxList)}

\* what the catalog answers to the search of one proposal
SessionAnswers ==
    {Raised, AuthExpired, Answer(<<>>),
     Answer(<<[item_id |-> "i1", product_url |-> "u1", in_stock |-> TRUE, size |-> "s"]>>)}

\* a plausible slip: the text is looked up and keyed as it was typed
group_key_raw(al, text) ==
    LET found == {a \in al : a.alias = text}
    IN IF found # {}
       THEN [known |-> TRUE, grocery_item_id |-> (CHOOSE a \in found : TRUE).grocery_item_id,
             text |-> <<>>]
       ELSE [known |-> FALSE, grocery_item_id |-> NoId, text |-> text]

\* lines 243-250: the key of the group a list entry belongs to
group_key(al, text) ==
    LET normalized == normalize_text(text)
        found == {a \in al : a.alias = normalized}
    IN IF found # {}
       THEN [known |-> TRUE, grocery_item_id |-> (CHOOSE a \in found : TRUE).grocery_item_id,
             text |-> <<>>]
       ELSE [known |-> FALSE, grocery_item_id |-> NoId, text |-> normalized]

\* groups.setdefault(key, []).append(item), over the first n entries; the
\* groups keep the order in which their keys first came up
RECURSIVE group_items(_, _, _)
group_items(al, items, n) ==
    IF n = 0 THEN <<>>
    ELSE LET groups == group_items(al, items, n - 1)
             key == group_key(al, items[n].text)
             at == {j \in 1..Len(groups) : groups[j].key = key}
         IN IF at # {}
            THEN LET j == CHOOSE x \in at : TRUE
                 IN [groups EXCEPT ![j].items = Append(@, items[n])]
            ELSE Append(groups, [key |-> key, items |-> <<items[n]>>])

\* lines 258-272: one ProposalItem per group, the first entry its primary
ProposalItem(i, group_of) ==
    [index |-> i, alexa_text |-> group_of[1].text, alexa_item_id |-> group_of[1].item_id,
     extra_alexa_items |-> Tail(group_of)] @@ NoProposal

make_proposals(al, items) ==
    LET groups == group_items(al, items, Len(items))
    IN [i \in 1..Len(groups) |-> ProposalItem(i - 1, groups[i].items)]

\* a preference store as create_item leaves it, and no session yet
InitSession ==
    /\ LET made == create_grocery_item({}, {}, <<" ", "A">>)
       IN /\ grocery_items = made.gi
          /\ aliases = made.al
    /\ preferred_products = {}
    /\ last = [op |-> "init", args |-> <<>>, exc |-> "none", ret |-> NoId, again |-> FALSE]
    /\ raw = NotYet
    /\ norm1 = NotYet
    /\ norm2 = NotYet
    /\ ResolveIdle
    /\ SessionIdle
    /\ CommitIdle
    /\ RequestIdle
    /\ StreamIdle

idleVars == <<rs_text, rs_pc, rs_match, pending, responses, all_results, finished,
              seen_in_stock, proposal, storeVars, textVars, laterVars>>

\* POST /order/start: the session is registered with status "logging_in"
\* and _run_order is scheduled
start_order ==
    /\ ro_pc = "none"
    /\ ro_pc' = "auth"
    /\ session_status' = "logging_in"
    /\ UNCHANGED <<session_error, instacart_client, alexa_client, alexa_items, proposals,
                   total_items, search_pc, search_resp, active_searches, searched_count,
                   idleVars>>

\* _run_order, step 1: the logins return
AuthOutcomes == {"ok", "instacart_failed", "amazon_failed", "no_cookies", "raise"}

AuthDone(outcome) ==
    /\ ro_pc = "auth"
    /\ IF outcome = "ok"
       THEN \* client = InstacartClient(...); await client.init_session()
            /\ instacart_client' = "open"
            /\ ro_pc' = "init_session"
            /\ session_status' = "logging_in"
            /\ UNCHANGED session_error
       ELSE \* the three early returns, or the outer except branch
            /\ session_error' = outcome
            /\ session_status' = "error"
            /\ ro_pc' = "end"
            /\ UNCHANGED instacart_client
    /\ UNCHANGED <<alexa_client, alexa_items, proposals, total_items, search_pc, search_resp,
                   active_searches, searched_count, idleVars>>

\* a plausible slip: the outer except branch sets "ready", as the except
\* branch of _search_items does
order_failed_ready(text) ==
    /\ session_error' = text
    /\ session_status' = "ready"
    /\ instacart_client' = IF instacart_client = "open" THEN "closed" ELSE instacart_client
    /\ ro_pc' = "end"

\* the outer except branch of _run_order: the error is recorded and the
\* catalog client, if the session has one, is closed and cleared
order_failed(text) ==
    /\ session_error' = text
    /\ session_status' = "error"
    /\ instacart_client' = IF instacart_client = "open" THEN "closed" ELSE instacart_client
    /\ ro_pc' = "end"

\* _run_order, before its try: the imports of lines 132-133.  alexa/auth.py
\* defines neither validate_alexa_cookies (asked for by order.py:132) nor
\* try_refresh_via_sidecar (asked for by alexa/client.py:19), so they raise
\* ImportError; the task ends outside the try and the session keeps the
\* status start_order gave it.  AuthDone is for imports that succeed.
ImportFailed ==
    /\ ro_pc = "auth"
    /\ ro_pc' = "end"
    /\ UNCHANGED <<session_status, session_error, instacart_client, alexa_client,
                   alexa_items, proposals, total_items, search_pc, search_resp,
                   active_searches, searched_count, idleVars>>

\* _run_order, step 2: init_session returns (its exception is only logged)
\* and the AlexaClient is made.  alexa/client.py:55 takes cookie_refresh_fn
\* alone, so the call of lines 209-216 with interactive_cookie_refresh_fn
\* raises TypeError; the constructor taking the keyword is the other outcome,
\* kept so that the steps behind it are covered.
InitSessionDone(constructed) ==
    /\ ro_pc = "init_session"
    /\ IF constructed
       THEN /\ alexa_client' = "open"
            /\ ro_pc' = "fetch"
            /\ UNCHANGED <<session_status, session_error, instacart_client>>
       ELSE /\ order_failed("TypeError")
            /\ UNCHANGED alexa_client
    /\ UNCHANGED <<alexa_items, proposals, total_items, search_pc, search_resp,
                   active_searches, searched_count, idleVars>>

\* _run_order, step 3: get_items raised
FetchFailed ==
    /\ ro_pc = "fetch"
    /\ session_error' = "Failed to fetch Alexa list"
    /\ session_status' = "error"
    /\ ro_pc' = "closing"
    /\ UNCHANGED <<instacart_client, alexa_client, alexa_items, proposals, total_items,
                   search_pc, search_resp, active_searches, searched_count, idleVars>>

\* a plausible slip: the empty list is not looked for
FetchDone_unchecked(items) ==
    /\ ro_pc = "fetch"
    /\ alexa_items' = items
    /\ proposals' = make_proposals(aliases, items)
    /\ total_items' = Len(proposals')
    /\ session_status' = "searching"
    /\ search_pc' = [i \in 1..Len(proposals') |-> "new"]
    /\ search_resp' = [i \in 1..Len(proposals') |-> Waiting]
    /\ ro_pc' = "gather"
    /\ UNCHANGED session_error
    /\ UNCHANGED <<instacart_client, alexa_client, active_searches, searched_count, idleVars>>

\* _run_order, step 3: get_items returned.  An empty list is an error; the
\* entries of any other are grouped into proposals and _search_items sets
\* the status and launches one _search_single_item per proposal
FetchDone(items) ==
    /\ ro_pc = "fetch"
    /\ alexa_items' = items
    /\ IF items = <<>>
       THEN /\ session_error' = "No items found on your Alexa Grocery List"
            /\ session_status' = "error"
            /\ ro_pc' = "closing"
            /\ UNCHANGED <<proposals, total_items, search_pc, search_resp>>
       ELSE /\ proposals' = make_proposals(aliases, items)
            /\ total_items' = Len(proposals')
            /\ session_status' = "searching"
            /\ search_pc' = [i \in 1..Len(proposals') |-> "new"]
            /\ search_resp' = [i \in 1..Len(proposals') |-> Waiting]
            /\ ro_pc' = "gather"
            /\ UNCHANGED session_error
    /\ UNCHANGED <<instacart_client, alexa_client, active_searches, searched_count, idleVars>>

\* a plausible slip: the text is not put in flight
SearchBegin_untracked(i) ==
    /\ ro_pc = "gather"
    /\ i \in 1..Len(proposals)
    /\ search_pc[i] = "new"
    /\ LET match == find_match(aliases, preferred_products, proposals[i].alexa_text)
       IN /\ match.preferred_products = <<>>
          /\ proposals' = [proposals EXCEPT ![i].grocery_item_id = match.grocery_item_id]
    /\ search_pc' = [search_pc EXCEPT ![i] = "awaiting"]
    /\ UNCHANGED <<ro_pc, session_status, session_error, instacart_client, alexa_client,
                   alexa_items, total_items, search_resp, searched_count, active_searches,
                   idleVars>>

\* _search_single_item of proposal i, up to its await: the text is put in
\* flight, find_match fills in the grocery item, the search is asked
SearchBegin(i) ==
    /\ ro_pc = "gather"
    /\ i \in 1..Len(proposals)
    /\ search_pc[i] = "new"
    /\ LET match == find_match(aliases, preferred_products, proposals[i].alexa_text)
       IN /\ match.preferred_products = <<>>
          /\ proposals' = [proposals EXCEPT ![i].grocery_item_id = match.grocery_item_id]
    /\ active_searches' = active_searches \cup {proposals[i].alexa_text}
    /\ search_pc' = [search_pc EXCEPT ![i] = "awaiting"]
    /\ UNCHANGED <<ro_pc, session_status, session_error, instacart_client, alexa_client,
                   alexa_items, total_items, search_resp, searched_count, idleVars>>

\* a plausible slip: no except branch, the exception is not recorded on the
\* proposal
SearchEnd_unrecorded(i, resp) ==
    /\ ro_pc = "gather"
    /\ i \in 1..Len(proposals)
    /\ search_pc[i] = "awaiting"
    /\ proposals' = [proposals EXCEPT ![i] =
                        IF is_exception(resp) THEN @
                        ELSE apply_search_results(@, resp.items, "New item", "new")]
    /\ search_resp' = [search_resp EXCEPT ![i] = resp]
    /\ active_searches' = active_searches \ {proposals[i].alexa_text}
    /\ searched_count' = searched_count + 1
    /\ search_pc' = [search_pc EXCEPT ![i] = "finished"]
    /\ UNCHANGED <<ro_pc, session_status, session_error, instacart_client, alexa_client,
                   alexa_items, total_items, idleVars>>

\* _search_single_item of proposal i, from its await to its end: the search
\* result is applied, or the exception is recorded on the proposal; finally
\* the text is taken out of flight and counted
SearchEnd(i, resp) ==
    /\ ro_pc = "gather"
    /\ i \in 1..Len(proposals)
    /\ search_pc[i] = "awaiting"
    /\ proposals' = [proposals EXCEPT ![i] =
                        IF is_exception(resp)
                        THEN [@ EXCEPT !.status = error_status(resp), !.status_class = "error"]
                        ELSE apply_search_results(@, resp.items, "New item", "new")]
    /\ search_resp' = [search_resp EXCEPT ![i] = resp]
    /\ active_searches' = active_searches \ {proposals[i].alexa_text}
    /\ searched_count' = searched_count + 1
    /\ search_pc' = [search_pc EXCEPT ![i] = "finished"]
    /\ UNCHANGED <<ro_pc, session_status, session_error, instacart_client, alexa_client,
                   alexa_items, total_items, idleVars>>

\* _search_items after its gather: every resolution has ended
GatherDone ==
    /\ ro_pc = "gather"
    /\ \A i \in 1..Len(proposals) : search_pc[i] = "finished"
    /\ session_status' = "ready"
    /\ ro_pc' = "closing"
    /\ UNCHANGED <<session_error, instacart_client, alexa_client, alexa_items, proposals,
                   total_items, search_pc, search_resp, active_searches, searched_count,
                   idleVars>>

\* finally: await alexa_client.close(); when it raises, the outer except
\* branch takes over
CloseDone(raised) ==
    /\ ro_pc = "closing"
    /\ alexa_client' = "closed"
    /\ IF raised
       THEN order_failed("close failed")
       ELSE /\ ro_pc' = "end"
            /\ UNCHANGED <<session_status, session_error, instacart_client>>
    /\ UNCHANGED <<alexa_items, proposals, total_items, search_pc, search_resp,
                   active_searches, searched_count, idleVars>>

NextSession ==
    \/ start_order
    \/ ImportFailed
    \/ \E outcome \in AuthOutcomes : AuthDone(outcome)
    \/ \E constructed \in BOOLEAN : InitSessionDone(constructed)
    \/ FetchFailed
    \/ \E items \in AlexaLists : FetchDone(items)
    \/ \E i \in 1..MaxList : SearchBegin(i)
    \/ \E i \in 1..MaxList, resp \in SessionAnswers : SearchEnd(i, resp)
    \/ GatherDone
    \/ \E raised \in BOOLEAN : CloseDone(raised)

SpecSession == InitSession /\ [][NextSession]_vars

\* ------------------------------------------- commit_order, _run_commit
\* The commit of one reviewed session.  The model follows one POST
\* /order/commit of a session whose search has ended.

MaxCommit == 2       \* form rows submitted in one commit
\* the indexes a form may carry: those of the two proposals, and one that
\* no proposal has
FormIndexes == {0, 1, 2}

\* the shopping list behind the reviewed session: two entries of the known
\* item and one entry of an unknown one
CommitList ==
    <<[item_id |-> 1, text |-> <<"a">>], [item_id |-> 2, text |-> <<" ", "A">>],
      [item_id |-> 3, text |-> <<"Z">>]>>

\* what the search of a proposal answered: nothing, or one product
CommitAnswers ==
    {Answer(<<>>),
     Answer(<<[item_id |-> "i1", product_url |-> "u1", in_stock |-> TRUE, size |-> "s"]>>)}

\* a proposal as _search_single_item left it; _apply_search_results also
\* copies the name of the best product (order.py:296)
Proposed(p, al, pp, resp) ==
    LET match == find_match(al, pp, p.alexa_text)
        q == apply_search_results([p EXCEPT !.grocery_item_id = match.grocery_item_id],
                                  resp.items, "New item", "new")
    IN [product_name |-> IF q.item_id # None THEN "P1" ELSE None] @@ q

\* for p in session.proposals: if p.index == idx: proposal = p; break
proposal_of(props, idx) == SelectSeq(props, LAMBDA p : p.index = idx)

\* the hidden fields a form row carries: the text and the grocery item of
\* the reviewed proposal
form_hidden(props, idx) ==
    IF proposal_of(props, idx) # <<>>
    THEN [alexa_text |-> proposal_of(props, idx)[1].alexa_text,
          grocery_item_id |-> proposal_of(props, idx)[1].grocery_item_id]
    ELSE [alexa_text |-> <<"Z">>, grocery_item_id |-> NoId]

\* one form row; a row with the skip flag is not read any further
FormRows ==
    [skip : {""}, product_name : {"", "P1", "P2"}, item_id : {"", "i1"}]
        \cup {[skip |-> "1", product_name |-> "P1", item_id |-> "i1"]}

\* items_data as the form parser builds it
FormData(props) ==
    UNION {{[i \in S |-> form_hidden(props, i) @@ rows[i]] :
               rows \in [S -> FormRows]} :
           S \in {T \in SUBSET FormIndexes : T # {} /\ Cardinality(T) <= MaxCommit}}

\* a session whose search has ended, its catalog client still open
InitCommit ==
    /\ LET made == create_grocery_item({}, {}, <<" ", "A">>)
       IN /\ grocery_items = made.gi
          /\ aliases = made.al
    /\ \E k \in 0..1 : preferred_products = prefs_store(k)
    /\ last = [op |-> "init", args |-> <<>>, exc |-> "none", ret |-> NoId, again |-> FALSE]
    /\ raw = NotYet
    /\ norm1 = NotYet
    /\ norm2 = NotYet
    /\ ResolveIdle
    /\ ro_pc = "end"
    /\ session_status = "ready"
    /\ session_error = None
    /\ instacart_client = "open"
    /\ alexa_client = "closed"
    /\ alexa_items = CommitList
    /\ \E resp \in [1..2 -> CommitAnswers] :
          /\ proposals = [i \in 1..2 |->
                            Proposed(make_proposals(aliases, CommitList)[i], aliases,
                                     preferred_products, resp[i])]
          /\ search_resp = resp
    /\ total_items = 2
    /\ search_pc = [i \in 1..2 |-> "finished"]
    /\ CommitIdle
    /\ RequestIdle
    /\ StreamIdle

\* the events of the commit queue
ActiveEvent(idx) == [type |-> "active", idx |-> idx]
DoneEvent(idx, success, reason) ==
    [type |-> "done", idx |-> idx, success |-> success, reason |-> reason]
CompleteEvent(added, skipped, failed, total) ==
    [type |-> "complete", added |-> added, skipped |-> skipped, failed |-> failed,
     total |-> total]

\* the dict _commit_single_item returns, or the one _run_commit makes of an
\* exception the gather handed back (order.py:941-943)
CommitResult(success, skipped) == [success |-> success, skipped |-> skipped]

\* POST /order/commit: the form is parsed, the queue is made and
\* _run_commit is scheduled.  This is the first request of a session;
\* commit_again is a further one.
commit_order(items_data) ==
    /\ session_status # "none"
    /\ ~popped
    /\ commit_pc = "none"
    /\ commit_items_data' = items_data
    /\ commit_queue' = <<>>
    /\ commit_pc' = "scheduled"
    /\ item_pc' = [i \in DOMAIN items_data |-> "start"]
    /\ UNCHANGED <<active_commits, commit_results, commit_counter, cart, marked, learned,
                   order_log, storeVars, textVars, resolveVars, sessionVars, requestVars, streamVars>>

\* _run_commit up to its gather.  The AlexaClient is imported and made
\* before the try.  The import of line 904 raises ImportError (client.py:19
\* asks alexa/auth.py for try_refresh_via_sidecar, which it does not
\* define), and alexa/client.py:55 takes cookie_refresh_fn alone, so the
\* call of lines 915-920 with interactive_cookie_refresh_fn raises
\* TypeError: the task ends with nothing put on the queue and no finally
\* branch run.  The client being made is the other outcome, kept so that
\* the steps behind it are covered.
RunCommitInit(constructed) ==
    /\ commit_pc = "scheduled"
    /\ instacart_client' = "open"
    /\ IF constructed
       THEN /\ alexa_client' = "open"
            /\ commit_pc' = "gather"
       ELSE /\ commit_pc' = "raised"
            /\ UNCHANGED alexa_client
    /\ UNCHANGED <<commit_items_data, commit_queue, active_commits, item_pc, commit_results,
                   commit_counter, cart, marked, learned, order_log, storeVars, textVars,
                   resolveVars, requestVars, streamVars, ro_pc, session_status, session_error,
                   alexa_items, proposals, total_items, search_pc, search_resp>>

\* _auto_checkoff_alexa(alexa_client, proposal).  Its first statement
\* (order.py:327) imports alexacart.alexa.client, and that module imports
\* try_refresh_via_sidecar from alexa/auth.py (client.py:19), which defines
\* no such name: ImportError.  Behind it the first condition (order.py:329,
\* and line 330 when the entry id is empty) reads
\* settings.skip_alexa_checkoff, a field Settings (config.py:8-15) does not
\* have: AttributeError.  Every call raises before any mark_complete.
auto_checkoff_alexa(p) == [exc |-> "ImportError", ret |-> FALSE, marked |-> <<>>]

\* _learn_from_result.  make_product_top_choice and add_preferred_product
\* (matcher.py:108-116, 219) take no `size`, so the calls of lines 1107, 1110
\* and 1114 raise TypeError before the callee runs; for an unknown item
\* create_grocery_item has flushed its rows by then.
learn_from_result(gi, al, pp, alexa_text, grocery_item_id, was_corrected) ==
    IF grocery_item_id # NoId
    THEN [exc |-> "TypeError", gi |-> gi, al |-> al, pp |-> pp]
    ELSE LET made == create_grocery_item(gi, al, alexa_text)
         IN IF made.exc # "none"
            THEN [exc |-> made.exc, gi |-> gi, al |-> al, pp |-> pp]
            ELSE [exc |-> "TypeError", gi |-> made.gi, al |-> made.al, pp |-> pp]

\* gather's result of item i is in
Returned(i, result) ==
    /\ item_pc' = [item_pc EXCEPT ![i] = "returned"]
    /\ commit_results' = [j \in DOMAIN commit_results \cup {i} |->
                             IF j = i THEN result ELSE commit_results[j]]

\* _commit_single_item of row i, up to its first await on the catalog.  A
\* row with the skip flag builds OrderLog(..., skipped=True); the table
\* (models.py:56-69) has no such column, the constructor raises TypeError,
\* no event is put and the gather hands the exception back.  A row without
\* product name or item id ends with a `done` event and no `active` one.
CommitBegin(i) ==
    /\ commit_pc = "gather"
    /\ i \in DOMAIN item_pc
    /\ item_pc[i] = "start"
    /\ LET data == commit_items_data[i]
       IN IF data.skip = "1"
          THEN /\ Returned(i, CommitResult(FALSE, FALSE))
               /\ UNCHANGED <<commit_queue, commit_counter, active_commits>>
          ELSE IF data.product_name = "" \/ data.item_id = ""
          THEN /\ commit_counter' = commit_counter + 1
               /\ commit_queue' = Append(commit_queue,
                      DoneEvent(i, FALSE, IF data.product_name = "" THEN "No product selected"
                                          ELSE "No item ID"))
               /\ Returned(i, CommitResult(FALSE, FALSE))
               /\ UNCHANGED active_commits
          ELSE /\ active_commits' = active_commits \cup {data.alexa_text}
               /\ commit_queue' = Append(commit_queue, ActiveEvent(i))
               /\ item_pc' = [item_pc EXCEPT ![i] = "cart"]
               /\ UNCHANGED <<commit_results, commit_counter>>
    /\ UNCHANGED <<commit_items_data, commit_pc, cart, marked, learned, order_log,
                   storeVars, textVars, resolveVars, sessionVars, requestVars, streamVars>>

\* _commit_single_item of row i, from the return of add_to_cart to its end:
\* the check-off, the log entry, the learning and the commit, or the except
\* branch with its rollback; finally the text is taken out of flight
CartAdded(i, added) ==
    /\ commit_pc = "gather"
    /\ i \in DOMAIN item_pc
    /\ item_pc[i] = "cart"
    /\ LET data == commit_items_data[i]
           found == proposal_of(proposals, i)
           checkoff == IF added /\ found # <<>> THEN auto_checkoff_alexa(found[1])
                       ELSE [exc |-> "none", ret |-> TRUE, marked |-> <<>>]
           was_corrected == /\ found # <<>>
                            /\ found[1].product_name # None
                            /\ found[1].product_name # data.product_name
           log_entry == [alexa_text |-> data.alexa_text,
                         matched_grocery_item_id |-> data.grocery_item_id,
                         proposed_product |-> IF found # <<>> THEN found[1].product_name
                                              ELSE None,
                         final_product |-> data.product_name,
                         was_corrected |-> was_corrected, added_to_cart |-> added]
           learnt == IF added /\ checkoff.exc = "none"
                     THEN learn_from_result(grocery_items, aliases, preferred_products,
                                            data.alexa_text, data.grocery_item_id,
                                            was_corrected)
                     ELSE [exc |-> "none", gi |-> grocery_items, al |-> aliases,
                           pp |-> preferred_products]
           exc == IF checkoff.exc # "none" THEN checkoff.exc ELSE learnt.exc
           reason == IF ~added THEN "Failed to add to cart"
                     ELSE IF ~checkoff.ret THEN "Added but could not check off Alexa list"
                     ELSE ""
       IN /\ cart' = IF added THEN Append(cart, [idx |-> i, item_id |-> data.item_id])
                     ELSE cart
          /\ marked' = marked \o checkoff.marked
          /\ IF exc = "none"
             THEN \* db.commit()
                  /\ grocery_items' = learnt.gi
                  /\ aliases' = learnt.al
                  /\ preferred_products' = learnt.pp
                  /\ order_log' = Append(order_log, log_entry)
                  /\ learned' = IF added THEN learned \cup {i} ELSE learned
                  /\ commit_queue' = Append(commit_queue, DoneEvent(i, added, reason))
                  /\ Returned(i, CommitResult(added, FALSE))
             ELSE \* except Exception: db.rollback()
                  /\ UNCHANGED <<grocery_items, aliases, preferred_products, order_log,
                                 learned>>
                  /\ commit_queue' = Append(commit_queue, DoneEvent(i, FALSE, exc))
                  /\ Returned(i, CommitResult(FALSE, FALSE))
          /\ commit_counter' = commit_counter + 1
          /\ active_commits' = active_commits \ {data.alexa_text}
    /\ UNCHANGED <<commit_items_data, commit_pc, last, textVars, resolveVars, sessionVars,
                   requestVars, streamVars>>

\* _run_commit after its gather: the results are counted, the `complete`
\* event is put; finally the list client is closed and, unless that raised,
\* the catalog client is closed and cleared
CommitGathered(raised) ==
    /\ commit_pc = "gather"
    /\ \A i \in DOMAIN item_pc : item_pc[i] = "returned"
    /\ LET results == commit_results
           added_count == Cardinality({i \in DOMAIN results :
                                          results[i].success /\ ~results[i].skipped})
           skipped_count == Cardinality({i \in DOMAIN results : results[i].skipped})
           failed_count == Cardinality({i \in DOMAIN results :
                                           ~results[i].success /\ ~results[i].skipped})
       IN commit_queue' = Append(commit_queue,
              CompleteEvent(added_count, skipped_count, failed_count,
                            Cardinality(DOMAIN results)))
    /\ alexa_client' = "closed"
    /\ instacart_client' = IF raised THEN instacart_client ELSE "closed"
    /\ commit_pc' = "end"
    /\ UNCHANGED <<commit_items_data, active_commits, item_pc, commit_results,
                   commit_counter, cart, marked, learned, order_log, storeVars, textVars,
                   resolveVars, requestVars, streamVars, ro_pc, session_status, session_error,
                   alexa_items, proposals, total_items, search_pc, search_resp>>

NextCommit ==
    \/ \E items_data \in (IF commit_pc = "none" THEN FormData(proposals) ELSE {}) :
          commit_order(items_data)
    \/ \E constructed \in BOOLEAN : RunCommitInit(constructed)
    \/ \E i \in FormIndexes : CommitBegin(i)
    \/ \E i \in FormIndexes, added \in BOOLEAN : CartAdded(i, added)
    \/ \E raised \in BOOLEAN : CommitGathered(raised)

SpecCommit == InitCommit /\ [][NextCommit]_vars

\* ----------------------- AlexaClient._request_with_retry and its callers
\* The list service and the credential sources are the environment: what
\* they answer is chosen freely.  The model starts behind _get_client.

\* the status codes the services answer
Statuses == {200, 401, 404, 429, 502, 503}
retryable_statuses == {502, 503, 429}
max_retries == 3
ListMethods == {"get_items", "mark_complete"}

\* what the browser session gives when asked for cookies: there is no
\* cookie_refresh_fn, it returns cookies, it returns nothing, it raises
BrowserAnswers == {"none", "cookies", "empty", "raise"}

\* what the caller of _request_with_retry makes of the response: get_items
\* raises on an error status (raise_for_status) and returns the entries
\* otherwise; mark_complete returns whether the status is 200 or 204
method_result(method, status) ==
    IF method = "get_items"
    THEN IF status >= 400 THEN "raise" ELSE "items"
    ELSE IF status \in {200, 204} THEN "True" ELSE "False"

\* get_items or mark_complete is called and enters the retry loop
RequestStart(method) ==
    /\ rq_pc = "idle"
    /\ rq_method' = method
    /\ rq_pc' = "attempt"
    /\ rq_attempt' = 0
    /\ UNCHANGED <<rq_statuses, rq_delays, rq_refreshes, rq_result, ic_op, ic_pc,
                   ic_statuses, ic_result, commitVars, streamVars, storeVars, textVars, resolveVars,
                   sessionVars>>

\* a plausible slip: the last attempt is retried as well
Respond_unbounded(status) ==
    /\ rq_pc = "attempt"
    /\ rq_statuses' = Append(rq_statuses, status)
    /\ IF status = 401
       THEN /\ rq_pc' = "refresh"
            /\ UNCHANGED <<rq_delays, rq_result>>
       ELSE IF status \in retryable_statuses /\ rq_attempt <= max_retries
       THEN /\ rq_pc' = "sleep"
            /\ rq_delays' = Append(rq_delays, 2 ^ rq_attempt)
            /\ UNCHANGED rq_result
       ELSE /\ rq_pc' = "returned"
            /\ rq_result' = method_result(rq_method, status)
            /\ UNCHANGED rq_delays
    /\ UNCHANGED <<rq_method, rq_attempt, rq_refreshes, ic_op, ic_pc, ic_statuses,
                   ic_result, commitVars, streamVars, storeVars, textVars, resolveVars, sessionVars>>

\* the response of one attempt of the loop: a 401 goes to the refresh, a
\* retryable status before the last attempt to the sleep of 2 ** attempt
\* seconds, anything else is returned
Respond(status) ==
    /\ rq_pc = "attempt"
    /\ rq_statuses' = Append(rq_statuses, status)
    /\ IF status = 401
       THEN /\ rq_pc' = "refresh"
            /\ UNCHANGED <<rq_delays, rq_result>>
       ELSE IF status \in retryable_statuses /\ rq_attempt < max_retries
       THEN /\ rq_pc' = "sleep"
            /\ rq_delays' = Append(rq_delays, 2 ^ rq_attempt)
            /\ UNCHANGED rq_result
       ELSE /\ rq_pc' = "returned"
            /\ rq_result' = method_result(rq_method, status)
            /\ UNCHANGED rq_delays
    /\ UNCHANGED <<rq_method, rq_attempt, rq_refreshes, ic_op, ic_pc, ic_statuses,
                   ic_result, commitVars, streamVars, storeVars, textVars, resolveVars, sessionVars>>

\* await asyncio.sleep(delay); continue
Slept ==
    /\ rq_pc = "sleep"
    /\ rq_attempt' = rq_attempt + 1
    /\ rq_pc' = "attempt"
    /\ UNCHANGED <<rq_method, rq_statuses, rq_delays, rq_refreshes, rq_result, ic_op,
                   ic_pc, ic_statuses, ic_result, commitVars, streamVars, storeVars, textVars,
                   resolveVars, sessionVars>>

\* the credential sources asked after a 401: the browser session when there
\* is a cookie_refresh_fn, then the sidecar unless the browser gave cookies
sources_asked(browser) ==
    (IF browser # "none" THEN <<"browser">> ELSE <<>>)
        \o (IF browser # "cookies" THEN <<"sidecar">> ELSE <<>>)

\* a plausible slip: after the refresh the loop goes on with the next
\* attempt instead of one request and a return
Refreshed_looping(browser, sidecar) ==
    /\ rq_pc = "refresh"
    /\ rq_refreshes' = Append(rq_refreshes,
                             [asked |-> sources_asked(browser),
                              refreshed |-> browser = "cookies" \/ sidecar])
    /\ IF browser = "cookies" \/ sidecar
       THEN /\ rq_pc' = "attempt"
            /\ UNCHANGED rq_result
       ELSE /\ rq_pc' = "returned"
            /\ rq_result' = method_result(rq_method, 401)
    /\ UNCHANGED <<rq_method, rq_attempt, rq_statuses, rq_delays, ic_op, ic_pc,
                   ic_statuses, ic_result, commitVars, streamVars, storeVars, textVars, resolveVars,
                   sessionVars>>

\* the refresh after a 401: with cookies the client is rebuilt and the
\* request is sent once more; without, the 401 is returned as it is
Refreshed(browser, sidecar) ==
    /\ rq_pc = "refresh"
    /\ rq_refreshes' = Append(rq_refreshes,
                             [asked |-> sources_asked(browser),
                              refreshed |-> browser = "cookies" \/ sidecar])
    /\ IF browser = "cookies" \/ sidecar
       THEN /\ rq_pc' = "retry"
            /\ UNCHANGED rq_result
       ELSE /\ rq_pc' = "returned"
            /\ rq_result' = method_result(rq_method, 401)
    /\ UNCHANGED <<rq_method, rq_attempt, rq_statuses, rq_delays, ic_op, ic_pc,
                   ic_statuses, ic_result, commitVars, streamVars, storeVars, textVars, resolveVars,
                   sessionVars>>

\* the response of the request sent after the refresh is returned, whatever
\* its status
Retried(status) ==
    /\ rq_pc = "retry"
    /\ rq_statuses' = Append(rq_statuses, status)
    /\ rq_pc' = "returned"
    /\ rq_result' = method_result(rq_method, status)
    /\ UNCHANGED <<rq_method, rq_attempt, rq_delays, rq_refreshes, ic_op, ic_pc,
                   ic_statuses, ic_result, commitVars, streamVars, storeVars, textVars, resolveVars,
                   sessionVars>>

\* ------------------------------------- InstacartClient, one catalog call
CatalogOps == {"search_products", "get_product_details", "add_to_cart"}

\* what the method makes of the one response of _graphql_get/_graphql_post:
\* 401 raises InstacartAuthError, any other error status raises
\* HTTPStatusError; get_product_details turns a 400 or 404 into None and
\* add_to_cart turns every exception into False
catalog_result(op, status) ==
    IF status < 400 THEN "ok"
    ELSE IF op = "add_to_cart" THEN "False"
    ELSE IF op = "get_product_details" /\ status \in {400, 404} THEN "None"
    ELSE IF status = 401 THEN "InstacartAuthError"
    ELSE "HTTPStatusError"

\* a catalog method sends its request
CatalogCall(op) ==
    /\ ic_pc = "idle"
    /\ ic_op' = op
    /\ ic_pc' = "request"
    /\ UNCHANGED <<ic_statuses, ic_result, rq_method, rq_pc, rq_attempt, rq_statuses,
                   rq_delays, rq_refreshes, rq_result, commitVars, streamVars, storeVars, textVars,
                   resolveVars, sessionVars>>

\* the response arrives and the method returns or raises: there is no loop
\* and no refresh
CatalogRespond(status) ==
    /\ ic_pc = "request"
    /\ ic_statuses' = Append(ic_statuses, status)
    /\ ic_result' = catalog_result(ic_op, status)
    /\ ic_pc' = "returned"
    /\ UNCHANGED <<ic_op, rq_method, rq_pc, rq_attempt, rq_statuses, rq_delays,
                   rq_refreshes, rq_result, commitVars, streamVars, storeVars, textVars, resolveVars,
                   sessionVars>>

NextRequest ==
    \/ \E method \in ListMethods : RequestStart(method)
    \/ \E status \in Statuses : Respond(status)
    \/ Slept
    \/ \E browser \in BrowserAnswers, sidecar \in BOOLEAN : Refreshed(browser, sidecar)
    \/ \E status \in Statuses : Retried(status)
    \/ \E op \in CatalogOps : CatalogCall(op)
    \/ \E status \in Statuses : CatalogRespond(status)

SpecRequest == Init /\ [][NextRequest]_vars

\* ------------------------------------------- commit_progress_stream
\* _sessions holds the session: start_order put it there (order.py:112) and
\* no stream has popped it
InRegistry == session_status # "none" /\ ~popped

\* GET /order/commit-progress: the generator starts.  A session that is not
\* in the registry, or has no commit queue, answers "Session not found" and
\* returns; nothing is popped.  The session has a queue from its first
\* commit_order on
StreamConnect ==
    /\ stream_pc \in {"none", "notfound"}
    /\ stream_pc' = IF InRegistry /\ commit_pc # "none" THEN "connected" ELSE "notfound"
    /\ UNCHANGED <<stream_read, popped, commitVars, requestVars, storeVars, textVars,
                   resolveVars, sessionVars>>

\* the generator takes the next event off the queue; `complete` and `error`
\* close the stream and pop the session
StreamEvent ==
    /\ stream_pc = "connected"
    /\ stream_read < Len(commit_queue)
    /\ stream_read' = stream_read + 1
    /\ IF commit_queue[stream_read + 1].type \in {"complete", "error"}
       THEN /\ popped' = TRUE
            /\ stream_pc' = "closed"
       ELSE UNCHANGED <<popped, stream_pc>>
    /\ UNCHANGED <<commitVars, requestVars, storeVars, textVars, resolveVars, sessionVars>>

\* wait_for(q.get(), timeout=600) runs out: the stream closes and pops the
\* session.  The catalog calls end within 30 s (instacart/client.py:89), so
\* the queue stays empty that long only once the commit task is over
StreamTimeout ==
    /\ stream_pc = "connected"
    /\ stream_read = Len(commit_queue)
    /\ commit_pc \in {"raised", "end"}
    /\ popped' = TRUE
    /\ stream_pc' = "closed"
    /\ UNCHANGED <<stream_read, commitVars, requestVars, storeVars, textVars, resolveVars,
                   sessionVars>>

\* the steps the event loop takes on its own: the commit task and a stream
\* that is connected; requests of the user are not among them
TaskSteps ==
    \/ \E constructed \in BOOLEAN : RunCommitInit(constructed)
    \/ \E i \in FormIndexes : CommitBegin(i)
    \/ \E i \in FormIndexes, added \in BOOLEAN : CartAdded(i, added)
    \/ \E raised \in BOOLEAN : CommitGathered(raised)
    \/ StreamEvent
    \/ StreamTimeout

NextStream ==
    \/ NextCommit
    \/ StreamConnect
    \/ StreamEvent
    \/ StreamTimeout

SpecStream == InitCommit /\ [][NextStream]_vars

\* the event loop runs every task that can take a step
SpecStreamLive == SpecStream /\ WF_vars(TaskSteps)

\* ------------------------------------------- /order/commit, posted twice
MaxCart == 3         \* cart adds followed before the form is posted again
MaxLog == 2          \* log records followed before the form is posted again

\* POST /order/commit for a session whose earlier commit task has ended and
\* whose events nobody read: the handler looks the session up and does the
\* same as the first time, it reads neither session.status nor the earlier
\* queue.  The form posted again is the one posted before; the new task
\* starts with results and counter of its own.
commit_again ==
    /\ InRegistry
    /\ commit_pc = "end"
    /\ stream_pc = "none"
    /\ Len(cart) < MaxCart
    /\ Len(order_log) < MaxLog
    /\ commit_queue' = <<>>
    /\ commit_pc' = "scheduled"
    /\ item_pc' = [i \in DOMAIN commit_items_data |-> "start"]
    /\ commit_results' = <<>>
    /\ commit_counter' = 0
    /\ UNCHANGED <<commit_items_data, active_commits, cart, marked, learned, order_log,
                   storeVars, textVars, resolveVars, sessionVars, requestVars, streamVars>>

NextRecommit ==
    \/ NextCommit
    \/ commit_again

SpecRecommit == InitCommit /\ [][NextRecommit]_vars

\* ================================================================ claims

RanksOf(pp, gid) == {p.rank : p \in ProductsOf(pp, gid)}

\* the rank of every row, by primary key
RankById(pp) == {<<p.id, p.rank>> : p \in pp}

\* C1: for every grocery item the ranks of its preferred products are
\* exactly 1..n, without gaps and without duplicates, after any sequence of
\* add, delete (with renumbering), promote and make-top-choice operations.
C1_DenseRanks ==
    \A g \in grocery_items :
        /\ RanksOf(preferred_products, g.id)
              = 1..Cardinality(ProductsOf(preferred_products, g.id))
        /\ \A p, q \in ProductsOf(preferred_products, g.id) : p.rank = q.rank => p = q

\* C2: no normalized alias text is mapped to two different grocery items.
C2_AliasUnique ==
    \A a, b \in aliases :
        normalize_text(a.alias) = normalize_text(b.alias)
            => a.grocery_item_id = b.grocery_item_id

\* C2 witness: two items own aliases and a call that would have taken
\* another item's alias has just been refused.
C2_Witness ==
    /\ \E a, b \in aliases : a.grocery_item_id # b.grocery_item_id
    /\ last.op \in {"create_grocery_item", "add_alias"}
    /\ last.exc # "none"

\* C3: add_alias with a text that already belongs to the same item returns
\* the existing alias and adds no row; with a text that belongs to another
\* item it fails with a conflict and leaves the alias table unchanged.
C3_AddAlias ==
    [][last'.op = "add_alias" =>
        LET item_id == last'.args[1]
            owners == {a \in aliases : a.alias = normalize_text(last'.args[2])}
        IN /\ (\E a \in owners : a.grocery_item_id = item_id)
                => /\ aliases' = aliases
                   /\ last'.exc = "none"
                   /\ \E a \in owners : a.grocery_item_id = item_id /\ last'.ret = a.id
           /\ (owners # {} /\ \A a \in owners : a.grocery_item_id # item_id)
                => /\ aliases' = aliases
                   /\ last'.exc = "ValueError"
    ]_vars

\* C3 witness: add_alias was called with another item's alias and refused.
C3_Witness ==
    /\ last.op = "add_alias"
    /\ last.exc = "ValueError"
    /\ \E a \in aliases : a.alias = normalize_text(last.args[2])
                          /\ a.grocery_item_id # last.args[1]

\* the second of two add_preferred_product calls for the same item with the
\* same URL, or with the same name when neither call gives a URL
SameProductAgain(first, second) ==
    /\ first[1] = second[1]
    /\ \/ first[3] # None /\ second[3] = first[3]
       \/ first[3] = None /\ second[3] = None /\ second[2] = first[2]

\* C4: add_preferred_product called twice for the same item with the same
\* URL (or the same name when no URL is given) updates in place: the number
\* of products and every product's rank are the same after the second call
\* as after the first.
C4_AddTwice ==
    [][(/\ last.op = "add_preferred_product"
        /\ last'.op = "add_preferred_product"
        /\ SameProductAgain(last.args, last'.args)
        /\ (last.exc = "none" \/ last'.args = last.args))
        => /\ Cardinality(preferred_products') = Cardinality(preferred_products)
           /\ RankById(preferred_products') = RankById(preferred_products)
    ]_vars

\* C4 witness: the same add_preferred_product call was made twice in a row,
\* both succeeded, and the item has more than one product.
C4_Witness ==
    /\ last.op = "add_preferred_product"
    /\ last.again
    /\ last.exc = "none"
    /\ Cardinality(ProductsOf(preferred_products, last.args[1])) >= 2

\* C5: promote_product changes nothing on the rank-1 product; on a product
\* at rank r > 1 it exchanges ranks with the product at rank r-1 and leaves
\* every other product's rank unchanged.
C5_Promote ==
    [][last'.op = "promote_product" =>
        LET product == CHOOSE p \in preferred_products : p.id = last'.args[1]
            aboves == {p \in ProductsOf(preferred_products, product.grocery_item_id) :
                          p.rank = product.rank - 1}
        IN IF product.rank = 1
           THEN preferred_products' = preferred_products
           ELSE product.rank > 1 =>
                /\ aboves # {}
                /\ preferred_products' =
                      {IF p = product THEN [p EXCEPT !.rank = @ - 1]
                       ELSE IF p \in aboves THEN [p EXCEPT !.rank = product.rank]
                       ELSE p : p \in preferred_products}
    ]_vars

\* C6: after make_product_top_choice the named product has rank 1 and the
\* other products of the item keep their relative order; when it was at
\* rank 1 already no rank changes.
C6_TopChoice ==
    [][last'.op = "make_product_top_choice" =>
        LET gid == last'.args[1]
            before == ProductsOf(preferred_products, gid)
            after == ProductsOf(preferred_products', gid)
            named(q) == /\ q.product_name = last'.args[2]
                        /\ (last'.args[3] # None => q.product_url = last'.args[3])
        IN /\ \E top \in after :
                /\ top.rank = 1
                /\ named(top)
                /\ \A p1, p2 \in before, q1, q2 \in after :
                      (/\ q1.id = p1.id /\ q2.id = p2.id
                       /\ q1.id # top.id /\ q2.id # top.id
                       /\ p1.rank < p2.rank) => q1.rank < q2.rank
                /\ (\E p \in before : p.id = top.id /\ p.rank = 1)
                      => RankById(after) = RankById(before)
    ]_vars

\* what a create_grocery_item call that creates adds to the store
CreatesItemAndAlias(normalized) ==
    \E item \in grocery_items', alias \in aliases' :
        /\ item \notin grocery_items
        /\ alias \notin aliases
        /\ grocery_items' = grocery_items \cup {item}
        /\ aliases' = aliases \cup {alias}
        /\ item.name = normalized
        /\ alias.alias = normalized
        /\ alias.grocery_item_id = item.id
        /\ last'.ret = item.id

\* C7 as stated: create_grocery_item returns an existing item of that
\* normalized name and adds nothing; otherwise it creates exactly one item
\* and exactly one alias equal to the normalized name, pointing to the item;
\* a second call with the same name leaves the store unchanged.
C7_CreateAsStated ==
    [][last'.op = "create_grocery_item" =>
        LET normalized == normalize_text(last'.args[1])
        IN /\ IF \E g \in grocery_items : g.name = normalized
              THEN /\ UNCHANGED <<grocery_items, aliases>>
                   /\ \E g \in grocery_items : g.name = normalized /\ last'.ret = g.id
              ELSE CreatesItemAndAlias(normalized)
           /\ last'.again => UNCHANGED <<grocery_items, aliases>>
    ]_vars

\* C7 amended: as C7, except that when no item has the normalized name but
\* an alias equal to it exists already (owned by another item) the call
\* fails with an integrity error and adds neither an item nor an alias.
C7_Create ==
    [][last'.op = "create_grocery_item" =>
        LET normalized == normalize_text(last'.args[1])
        IN /\ IF \E g \in grocery_items : g.name = normalized
              THEN /\ UNCHANGED <<grocery_items, aliases>>
                   /\ \E g \in grocery_items : g.name = normalized /\ last'.ret = g.id
              ELSE IF \E a \in aliases : a.alias = normalized
              THEN /\ UNCHANGED <<grocery_items, aliases>>
                   /\ last'.exc = "IntegrityError"
              ELSE CreatesItemAndAlias(normalized)
           /\ last'.again => UNCHANGED <<grocery_items, aliases>>
    ]_vars

\* C7 witness: a second item has just been created from a text that needed
\* normalizing, together with its self alias.
C7_Witness ==
    /\ last.op = "create_grocery_item"
    /\ last.exc = "none"
    /\ ~last.again
    /\ Cardinality(grocery_items) = 2
    /\ last.args[1] # normalize_text(last.args[1])
    /\ \E g \in grocery_items, a \in aliases :
          /\ g.id = last.ret
          /\ g.name = normalize_text(last.args[1])
          /\ a.grocery_item_id = g.id
          /\ a.alias = g.name

\* C8: find_match reports is_known exactly when some alias equals the
\* normalized text, and then returns exactly the products of that alias's
\* grocery item in ascending rank order.
C8_FindMatch ==
    last.op = "find_match" =>
        LET owners == {a \in aliases : a.alias = normalize_text(last.args[1])}
            found == last.ret.preferred_products
        IN /\ last.ret.is_known <=> owners # {}
           /\ last.ret.is_known =>
                /\ \E a \in owners : a.grocery_item_id = last.ret.grocery_item_id
                /\ {found[i] : i \in 1..Len(found)}
                      = ProductsOf(preferred_products, last.ret.grocery_item_id)
                /\ \A i, j \in 1..Len(found) : i < j => found[i].rank < found[j].rank
           /\ ~last.ret.is_known => found = <<>>

\* C8 witness: a text that needed normalizing matched an item whose
\* products are not in primary-key order when sorted by rank.
C8_Witness ==
    /\ last.op = "find_match"
    /\ last.ret.is_known
    /\ last.args[1] # normalize_text(last.args[1])
    /\ \E i, j \in 1..Len(last.ret.preferred_products) :
          /\ i < j
          /\ last.ret.preferred_products[i].id > last.ret.preferred_products[j].id

\* C9: normalize is idempotent: normalize(normalize(x)) = normalize(x).
C9_NormalizeIdempotent == norm2 # NotYet => norm2 = norm1

\* C9 witness: a text with blanks on both ends and an upper-case letter has
\* been normalized twice.
C9_Witness ==
    /\ norm2 # NotYet
    /\ Len(raw) = 3
    /\ raw[1] \in Whitespace
    /\ raw[3] \in Whitespace
    /\ raw[2] = "A"
    /\ norm1 = <<"a">>

\* ---------------------------------------------------------------- C10
\* the resolution of a known item with preferences has ended
KnownResolved ==
    /\ rs_pc = "done"
    /\ rs_match.is_known
    /\ rs_match.preferred_products # <<>>

\* the position of a preferred product among the gathered tasks
TaskOf(p) == CHOOSE k \in 1..Len(rs_match.preferred_products) :
                 rs_match.preferred_products[k].id = p.id

\* what the catalog answered to the lookups of the item's preferences, as
\* options in ascending rank: every product found, or only those in stock
RECURSIVE found_by_rank(_, _)
found_by_rank(rows, in_stock_only) ==
    IF rows = {} THEN <<>>
    ELSE LET p == CHOOSE q \in rows : \A o \in rows : q.rank <= o.rank
             r == responses[TaskOf(p)]
             hit == /\ r.kind = "ok"
                    /\ r.items # <<>>
                    /\ (in_stock_only => r.items[1].in_stock)
         IN (IF hit
             THEN <<ProductOption(r.items[1],
                                  IF r.items[1].product_url # None
                                  THEN r.items[1].product_url ELSE p.product_url,
                                  "preference")>>
             ELSE <<>>) \o found_by_rank(rows \ {p}, in_stock_only)

RECURSIVE IsSubSeq(_, _)
IsSubSeq(a, b) ==
    IF a = <<>> THEN TRUE
    ELSE IF b = <<>> THEN FALSE
    ELSE IF a[1] = b[1] THEN IsSubSeq(Tail(a), Tail(b))
    ELSE IsSubSeq(a, Tail(b))

\* the in-stock results of the general search, in search order, as options
InStockSearched ==
    LET r == responses[Len(responses)]
        stocked(x) == x.in_stock
    IN IF r.kind = "ok" THEN as_search_options(SelectSeq(r.items, stocked)) ELSE <<>>

\* C10: for a known item with preferences the candidate list is the in-stock
\* answers of the preference lookups in ascending rank, followed by in-stock
\* search results in search order that repeat none of them and leave out no
\* result unrelated to every preference lookup; the completion order of the
\* lookups and the search (finished) has no part in it.
C10_Candidates ==
    KnownResolved =>
        LET mine == ProductsOf(preferred_products, rs_match.grocery_item_id)
            prefs == found_by_rank(mine, TRUE)
            found == found_by_rank(mine, FALSE)
            alts == proposal.alternatives
            repeats(o) == \E i \in 1..Len(prefs) :
                              \/ (o.item_id # None /\ o.item_id = prefs[i].item_id)
                              \/ (o.product_url # None /\ o.product_url = prefs[i].product_url)
            unrelated(o) == \A i \in 1..Len(found) :
                              /\ o.item_id # found[i].item_id
                              /\ (o.product_url = None \/ o.product_url # found[i].product_url)
            fresh(o) == ~ repeats(o)
        IN /\ Len(alts) >= Len(prefs)
           /\ SubSeq(alts, 1, Len(prefs)) = prefs
           /\ IsSubSeq(SelectSeq(InStockSearched, unrelated),
                       SubSeq(alts, Len(prefs) + 1, Len(alts)))
           /\ IsSubSeq(SubSeq(alts, Len(prefs) + 1, Len(alts)),
                       SelectSeq(InStockSearched, fresh))

\* ---------------------------------------------------------------- C11
\* the search-derived entries of the candidate list, in their order
SearchDerived ==
    LET from_search(o) == o.source = "search"
    IN SelectSeq(proposal.alternatives, from_search)

\* the option repeats the identifier or the URL of one of the options
Repeats(o, options) ==
    \E i \in 1..Len(options) :
        \/ (o.item_id # None /\ o.item_id = options[i].item_id)
        \/ (o.product_url # None /\ o.product_url = options[i].product_url)

\* C11: for a known item an in-stock search result is left out of the
\* candidate list exactly when its identifier or URL is that of a preference
\* lookup that found its product in stock; every other one is kept, in order.
C11_Dedup ==
    KnownResolved =>
        LET mine == ProductsOf(preferred_products, rs_match.grocery_item_id)
            represented == found_by_rank(mine, TRUE)
            kept(o) == ~ Repeats(o, represented)
        IN SearchDerived = SelectSeq(InStockSearched, kept)

\* ---------------------------------------------------------------- C12
\* C12: for a known item with preferences the status is "Matched" exactly
\* when the candidate list has a preference-derived entry, "Substituted"
\* exactly when it is non-empty with search-derived entries only, and
\* "No results" exactly when it is empty.
C12_Status ==
    KnownResolved =>
        LET alts == proposal.alternatives
            has_pref == \E i \in 1..Len(alts) : alts[i].source = "preference"
        IN /\ (proposal.status = "Matched") <=> has_pref
           /\ (proposal.status = "Substituted") <=> (alts # <<>> /\ ~ has_pref)
           /\ (proposal.status = "No results") <=> (alts = <<>>)

\* the sole preference is out of stock, the search found one product in
\* stock: that product alone, "Substituted"
C12_Witness ==
    /\ KnownResolved
    /\ Len(rs_match.preferred_products) = 1
    /\ responses[1].kind = "ok"
    /\ responses[1].items # <<>>
    /\ ~ responses[1].items[1].in_stock
    /\ Len(InStockSearched) = 1
    /\ Len(proposal.alternatives) = 1
    /\ proposal.status = "Substituted"

\* ---------------------------------------------------------------- C13
\* the resolution of a list text that matches no alias has ended
UnknownResolved ==
    /\ rs_pc = "done"
    /\ ~ rs_match.is_known

\* only the general search was asked: nothing was gathered
SearchOnly ==
    /\ all_results = <<>>
    /\ Len(responses) = 1

\* C13 as stated: for an unknown item only the general search is issued, the
\* candidate list is the in-stock search results in search order, and the
\* status is "New item" when the list is non-empty and "No results" otherwise.
C13_UnknownAsStated ==
    UnknownResolved =>
        /\ SearchOnly
        /\ proposal.alternatives = InStockSearched
        /\ proposal.status = IF InStockSearched # <<>> THEN "New item" ELSE "No results"

\* C13, amended: the same when the search returns; when the search raises,
\* the candidate list is empty and the status is "Error: ...".
C13_Unknown ==
    UnknownResolved =>
        /\ SearchOnly
        /\ proposal.alternatives = InStockSearched
        /\ proposal.status = IF is_exception(responses[1]) THEN error_status(responses[1])
                             ELSE IF InStockSearched # <<>> THEN "New item"
                             ELSE "No results"

\* an unknown item whose search found a product out of stock and then one in
\* stock: the second alone is the candidate list, "New item"
C13_Witness ==
    /\ UnknownResolved
    /\ responses[1].kind = "ok"
    /\ Len(responses[1].items) = 2
    /\ ~ responses[1].items[1].in_stock
    /\ responses[1].items[2].in_stock
    /\ Len(proposal.alternatives) = 1
    /\ proposal.status = "New item"

\* ---------------------------------------------------------------- C14
\* C14: whenever the candidate list is non-empty the selected product is its
\* first entry, and that entry is search-derived only when no preference
\* lookup found its product in stock.
C14_Best ==
    (rs_pc = "done" /\ proposal.alternatives # <<>>) =>
        LET best == proposal.alternatives[1]
            mine == ProductsOf(preferred_products, rs_match.grocery_item_id)
        IN /\ proposal.item_id = best.item_id
           /\ proposal.product_url = best.product_url
           /\ proposal.size = best.size
           /\ best.source = "search" => found_by_rank(mine, TRUE) = <<>>

\* ---------------------------------------------------------------- C15
\* the call raised, or it found nothing
Failed(resp) == is_exception(resp) \/ resp.items = <<>>

\* some catalog call of the resolution failed
SomeLookupFailed == \E k \in 1..Len(responses) : Failed(responses[k])

\* the candidate list made of the lookups that succeeded alone: the failed
\* preference lookups left out, a failed search taken as an empty list
FromSucceeded ==
    IF SearchOnly THEN InStockSearched
    ELSE LET n == Len(rs_match.preferred_products)
             succeeded == {k \in 1..n : ~ Failed(responses[k])}
             RECURSIVE results_of(_)
             results_of(k) == IF k = 0 THEN <<>>
                              ELSE results_of(k - 1)
                                     \o (IF k \in succeeded THEN <<all_results[k]>> ELSE <<>>)
             search == IF Failed(responses[n + 1]) THEN [kind |-> "list", items |-> <<>>]
                       ELSE all_results[n + 1]
         IN combine(NoProposal, results_of(n), search).alternatives

NotAnError == proposal.status \in {"Matched", "Substituted", "New item", "No results"}

AllAuthExpired ==
    /\ responses # <<>>
    /\ \A k \in 1..Len(responses) : responses[k].kind = "auth"

\* C16: a proposal whose lookups all failed with an authentication error
\* never ends with the status "No results".
C16_AuthNotNoResults ==
    (rs_pc = "done" /\ AllAuthExpired) => proposal.status # "No results"

\* ---------------------------------------------------------------- C17
\* the order of the session's statuses
StatusOrder == <<"starting", "logging_in", "fetching_list", "searching", "ready",
                 "committing", "done">>
StatusRank(status) == CHOOSE i \in 1..Len(StatusOrder) : StatusOrder[i] = status
Terminal == {"error", "done"}

\* C17: the status of a session only moves forward along starting,
\* logging_in, fetching_list, searching, ready, committing, done, or into
\* error; once it is error or done it never changes again.
C17_Forward ==
    [][session_status # "none" =>
          \/ session_status' = session_status
          \/ (session_status \notin Terminal /\ session_status' = "error")
          \/ /\ session_status \notin Terminal
             /\ session_status' \notin {"error", "none"}
             /\ StatusRank(session_status') > StatusRank(session_status)]_vars

\* the session went from logging_in over searching to ready, and from
\* there into error when closing the list client failed
C17_Witness ==
    /\ session_status = "error"
    /\ session_error = "close failed"
    /\ proposals # <<>>
    /\ \A i \in 1..Len(proposals) : search_pc[i] = "finished"

\* ---------------------------------------------------------------- C18
\* C18: when the fetched shopping list is empty the session is in error
\* with an error text, no proposal was created and no search was started.
C18_EmptyList ==
    alexa_items = <<>> =>
        /\ session_status = "error"
        /\ session_error # None
        /\ proposals = <<>>
        /\ total_items = 0
        /\ search_pc = <<>>
        /\ active_searches = {}
        /\ searched_count = 0

\* get_items returned an empty list and _run_order has ended
C18_Witness ==
    /\ alexa_items = <<>>
    /\ ro_pc = "end"

\* ---------------------------------------------------------------- C19
\* the list entries a proposal carries: its primary entry, then its extras
Carried(p) ==
    <<[item_id |-> p.alexa_item_id, text |-> p.alexa_text]>> \o p.extra_alexa_items

\* the places (proposal, position) at which a list entry is carried
CarriedAt(entry) ==
    {<<i, j>> \in (1..Len(proposals)) \X (1..(MaxList + 1)) :
        j <= Len(Carried(proposals[i])) /\ Carried(proposals[i])[j] = entry}

\* C19: every fetched list entry is carried by exactly one proposal, as its
\* primary entry or as one of its extra entries, the proposals carry nothing
\* else, and entries with the same normalized text are carried by the same
\* proposal.
C19_Partition ==
    (alexa_items # NotFetched /\ alexa_items # <<>>) =>
        /\ \A k \in 1..Len(alexa_items) : Cardinality(CarriedAt(alexa_items[k])) = 1
        /\ \A i \in 1..Len(proposals) : \A j \in 1..Len(Carried(proposals[i])) :
              \E k \in 1..Len(alexa_items) : alexa_items[k] = Carried(proposals[i])[j]
        /\ \A k, l \in 1..Len(alexa_items) :
              normalize_text(alexa_items[k].text) = normalize_text(alexa_items[l].text)
                  => \E i \in 1..Len(proposals) :
                        /\ CarriedAt(alexa_items[k]) \subseteq {i} \X (1..(MaxList + 1))
                        /\ CarriedAt(alexa_items[l]) \subseteq {i} \X (1..(MaxList + 1))

\* a list of three entries, two of them with the same normalized text: two
\* proposals, one of them with an extra entry
C19_Witness ==
    /\ alexa_items # NotFetched
    /\ Len(alexa_items) = 3
    /\ Len(proposals) = 2
    /\ \E i \in 1..2 : /\ Len(proposals[i].extra_alexa_items) = 1
                       /\ proposals[i].alexa_text # proposals[i].extra_alexa_items[1].text

\* ---------------------------------------------------------------- C20
\* the event loop runs every task that can run, and every catalog call
\* returns or raises (the client's timeout)
SpecSessionLive == SpecSession /\ WF_vars(NextSession)

\* the resolution of proposal i raised
ResolutionFailed(i) == is_exception(search_resp[i])

\* the proposal is what its own search answer makes of it
AsWithoutFailures(i) ==
    LET stocked(r) == r.in_stock
        in_stock == SelectSeq(search_resp[i].items, stocked)
    IN /\ proposals[i].alternatives = as_search_options(in_stock)
       /\ proposals[i].status = IF in_stock # <<>> THEN "New item" ELSE "No results"

ErrorStatuses == {"Error: search failed", "Error: Instacart session expired (401)"}

\* every finished proposal: "Error: ..." exactly when its resolution raised,
\* and otherwise the status and candidates of its own search answer
FailuresStayLocal ==
    \A i \in 1..Len(proposals) :
        search_pc[i] = "finished" =>
            /\ proposals[i].status \in ErrorStatuses <=> ResolutionFailed(i)
            /\ ~ ResolutionFailed(i) => AsWithoutFailures(i)

\* C20: whichever proposals fail their resolution with an exception, the
\* searching session reaches ready; exactly the failing proposals have the
\* status "Error: ...", and every other proposal has the status and the
\* candidates it has without the failures.
C20_FailuresIsolated ==
    /\ [] FailuresStayLocal
    /\ (session_status = "searching") ~> (session_status = "ready")
    /\ [] (session_status = "ready" =>
              \A i \in 1..Len(proposals) : search_pc[i] = "finished")

\* a ready session of three proposals: the resolutions of two raised, the
\* third found its product
C20_Witness ==
    /\ session_status = "ready"
    /\ Len(proposals) = 3
    /\ Cardinality({i \in 1..3 : ResolutionFailed(i)}) = 2
    /\ \E i \in 1..3 : proposals[i].status = "New item"

\* ---------------------------------------------------------------- C21
\* the proposals whose resolution stands at pc
ProposalsAt(pc) == {i \in 1..Len(proposals) : search_pc[i] = pc}

\* C21: while searching, searched_count is the number of proposals whose
\* resolution has finished and the in-flight set holds exactly the proposals
\* started and not finished; 0 <= searched_count <= total_items always; when
\* the status is ready no proposal is Pending, searched_count is total_items
\* and nothing is in flight.
C21_Progress ==
    /\ 0 <= searched_count
    /\ searched_count <= total_items
    /\ session_status = "searching" =>
          /\ searched_count = Cardinality(ProposalsAt("finished"))
          /\ active_searches = {proposals[i].alexa_text : i \in ProposalsAt("awaiting")}
          /\ Cardinality(active_searches) = Cardinality(ProposalsAt("awaiting"))
    /\ session_status = "ready" =>
          /\ \A i \in 1..Len(proposals) : proposals[i].status # "Pending"
          /\ searched_count = total_items
          /\ active_searches = {}

\* searching, three proposals: one finished, one in flight, one not started
C21_Witness ==
    /\ session_status = "searching"
    /\ Cardinality(ProposalsAt("finished")) = 1
    /\ Cardinality(ProposalsAt("awaiting")) = 1
    /\ Cardinality(ProposalsAt("new")) = 1

\* ------------------------------------------------------------ C22 - C27
\* the commit task has ended, by its last statement or by an exception
CommitOver == commit_pc \in {"end", "raised"}

\* the positions of the queue holding an event of this type for row i
EventsOf(type, i) ==
    {k \in 1..Len(commit_queue) : commit_queue[k].type = type /\ commit_queue[k].idx = i}

Skipped(i) == commit_items_data[i].skip = "1"
\* add_to_cart returned True for row i
InCart(i) == \E k \in 1..Len(cart) : cart[k].idx = i
HasReturned(i) == i \in DOMAIN item_pc /\ item_pc[i] = "returned"

\* C22: when the commit task has ended, every submitted row without the skip
\* flag has one `active` event followed by exactly one `done` event of its
\* index, and every row with the skip flag has exactly one `skip` event and
\* neither an `active` nor a `done` event.
C22_EventStream ==
    CommitOver =>
        \A i \in DOMAIN commit_items_data :
            IF Skipped(i)
            THEN /\ Cardinality(EventsOf("skip", i)) = 1
                 /\ EventsOf("active", i) = {}
                 /\ EventsOf("done", i) = {}
            ELSE /\ Cardinality(EventsOf("active", i)) = 1
                 /\ Cardinality(EventsOf("done", i)) = 1
                 /\ \A a \in EventsOf("active", i), d \in EventsOf("done", i) : a < d

\* C23: when the commit task has ended, the queue holds exactly one
\* `complete` event, as its last event; its counts add up to the number of
\* submitted rows, `added` is the number of rows whose cart add succeeded
\* and `skipped` the number of rows submitted with the skip flag.
C23_Complete ==
    CommitOver =>
        LET completes == {k \in 1..Len(commit_queue) : commit_queue[k].type = "complete"}
            rows == DOMAIN commit_items_data
        IN /\ completes = {Len(commit_queue)}
           /\ Len(commit_queue) > 0
           /\ LET e == commit_queue[Len(commit_queue)]
              IN /\ e.added + e.skipped + e.failed = Cardinality(rows)
                 /\ e.added = Cardinality({i \in rows : InCart(i)})
                 /\ e.skipped = Cardinality({i \in rows : Skipped(i)})

\* the list entries behind a proposal: its primary and its duplicates
EntriesOf(p) ==
    {p.alexa_item_id} \cup {p.extra_alexa_items[k].item_id : k \in 1..Len(p.extra_alexa_items)}

\* C24: every mark_complete of the commit is for an entry of a row whose cart
\* add succeeded, and once a row whose cart add succeeded has returned,
\* mark_complete has been called for the primary entry and for every
\* duplicate entry of its proposal.
C24_Checkoff ==
    /\ \A k \in 1..Len(marked) : InCart(marked[k].idx)
    /\ \A i \in DOMAIN commit_items_data :
          (HasReturned(i) /\ InCart(i) /\ proposal_of(proposals, i) # <<>>) =>
              \A entry \in EntriesOf(proposal_of(proposals, i)[1]) :
                  \E k \in 1..Len(marked) : marked[k].idx = i /\ marked[k].item_id = entry

\* C25: a row has been learned from only if its cart add succeeded, and every
\* row that has returned with a successful cart add has been learned from
\* (once: `learned` holds each index at most once).
C25_LearnedOnce ==
    /\ \A i \in learned : InCart(i)
    /\ \A i \in DOMAIN commit_items_data : (HasReturned(i) /\ InCart(i)) => i \in learned

\* C26: once a row of a known grocery item has returned with a successful
\* cart add and a final product that differs from the proposed one, the final
\* product is a preferred product of that item at rank 1.
C26_CorrectedOnTop ==
    \A i \in DOMAIN commit_items_data :
        LET data == commit_items_data[i]
            found == proposal_of(proposals, i)
        IN (/\ HasReturned(i) /\ InCart(i)
            /\ data.grocery_item_id # NoId
            /\ found # <<>>
            /\ found[1].product_name \notin {None, data.product_name}) =>
               \E p \in ProductsOf(preferred_products, data.grocery_item_id) :
                   p.product_name = data.product_name /\ p.rank = 1

\* C27: once a row without grocery item id has returned with a successful
\* cart add, there is a grocery item named by the normalized list text, with
\* that name as its alias, and the final product is its only preferred
\* product, at rank 1.
C27_UnknownLearned ==
    \A i \in DOMAIN commit_items_data :
        LET data == commit_items_data[i]
        IN (HasReturned(i) /\ InCart(i) /\ data.grocery_item_id = NoId) =>
               \E g \in grocery_items :
                   /\ g.name = normalize_text(data.alexa_text)
                   /\ \E a \in aliases : a.grocery_item_id = g.id /\ a.alias = g.name
                   /\ \E p \in preferred_products :
                          /\ ProductsOf(preferred_products, g.id) = {p}
                          /\ p.product_name = data.product_name
                          /\ p.rank = 1

\* ------------------------------------------------------------ C28 - C30
\* the call has received a 401; the position of the first one
Saw401 == \E k \in 1..Len(rq_statuses) : rq_statuses[k] = 401
First401 == Min({k \in 1..Len(rq_statuses) : rq_statuses[k] = 401})
\* the requests sent after the first 401
SentAfter401 == Len(rq_statuses) - First401
LastStatus == rq_statuses[Len(rq_statuses)]
\* get_items raised: _run_order records the error and ends the session
\* (order.py:220-233)
AbortsSession == rq_method = "get_items" /\ rq_result = "raise"

\* C28 as stated: a call that received a 401 and has returned was refreshed
\* once and retried at most once, and its 401 does not abort the session.
C28_RefreshOnceAsStated ==
    (rq_pc = "returned" /\ Saw401) =>
        /\ Len(rq_refreshes) = 1
        /\ SentAfter401 <= 1
        /\ ~ AbortsSession

\* C28: a list-service call that receives a 401 goes through one refresh
\* round (the browser session if the client has one, the sidecar if that
\* gave nothing) and, exactly when the round gave credentials, sends the
\* request once more; no call is refreshed twice or sends a second request
\* after its 401.  The status that is left decides the call alone:
\* mark_complete returns True or False and never raises, get_items raises
\* exactly when the last status is an error, which ends the session.
C28_RefreshOnce ==
    /\ Len(rq_refreshes) <= 1
    /\ Saw401 => SentAfter401 <= 1
    /\ (rq_pc = "returned" /\ Saw401) =>
          /\ Len(rq_refreshes) = 1
          /\ rq_refreshes[1].asked # <<>>
          /\ rq_refreshes[1].refreshed <=> SentAfter401 = 1
          /\ rq_method = "mark_complete" => rq_result \in {"True", "False"}
          /\ AbortsSession <=> (rq_method = "get_items" /\ LastStatus >= 400)

\* mark_complete got a 401, the sidecar gave cookies, the request sent again
\* got a 401 again: the call has returned False
C28_Witness ==
    /\ rq_pc = "returned"
    /\ rq_method = "mark_complete"
    /\ rq_statuses = <<401, 401>>
    /\ rq_refreshes = <<[asked |-> <<"browser", "sidecar">>, refreshed |-> TRUE]>>
    /\ rq_result = "False"

\* every status received so far is a retryable one
OnlyRetryable == \A k \in 1..Len(rq_statuses) : rq_statuses[k] \in retryable_statuses

\* C29 as stated: a call that kept receiving 502, 503 or 429 has returned
\* after max_retries retries, and the caller treats it as a failure of that
\* call only.
C29_BackoffAsStated ==
    (rq_pc = "returned" /\ OnlyRetryable) =>
        /\ Len(rq_statuses) = max_retries + 1
        /\ ~ AbortsSession

\* C29: the k-th sleep of a call lasts 2^(k-1) seconds and there are at most
\* max_retries of them; a call that kept receiving 502, 503 or 429 returns
\* after max_retries + 1 requests with the last response: mark_complete then
\* returns False, get_items raises, which ends the session.
C29_Backoff ==
    /\ \A k \in 1..Len(rq_delays) : rq_delays[k] = 2 ^ (k - 1)
    /\ Len(rq_delays) <= max_retries
    /\ Len(rq_statuses) <= max_retries + 2
    /\ (rq_pc = "returned" /\ OnlyRetryable) =>
          /\ Len(rq_statuses) = max_retries + 1
          /\ Len(rq_delays) = max_retries
          /\ rq_result = method_result(rq_method, LastStatus)
          /\ rq_method = "mark_complete" => rq_result = "False"
          /\ rq_method = "get_items" => AbortsSession

\* mark_complete got 503, 502, 429 and 503, slept 1, 2 and 4 seconds in
\* between and returned False
C29_Witness ==
    /\ rq_pc = "returned"
    /\ rq_method = "mark_complete"
    /\ rq_statuses = <<503, 502, 429, 503>>
    /\ rq_delays = <<1, 2, 4>>
    /\ rq_result = "False"

\* C30: a catalog call that has returned after a 502, 503, 429 or 401 as its
\* first response has sent its request again.
C30_SameTolerance ==
    (ic_pc = "returned" /\ ic_statuses[1] \in retryable_statuses \cup {401}) =>
        Len(ic_statuses) > 1

\* C31: every session put in the registry is eventually removed from it,
\* also one whose review is never committed
C31_EventuallyRemoved == <>(~InRegistry)

\* C34: when the commit task has ended, the order log holds exactly one
\* record for every submitted row, with the row's text and final product
\* and with added_to_cart telling whether the row is in the cart.
C34_OneLogPerRow ==
    commit_pc = "end" =>
        /\ Len(order_log) = Cardinality(DOMAIN commit_items_data)
        /\ \A i \in DOMAIN commit_items_data :
              \E k \in 1..Len(order_log) :
                 /\ order_log[k].alexa_text = commit_items_data[i].alexa_text
                 /\ Skipped(i) \/ order_log[k].added_to_cart = InCart(i)

\* C37: a `done` event reports success exactly when the row is in the cart,
\* and the `complete` event counts no row that is in the cart as failed.
C37_DoneTellsCart ==
    commit_pc # "none" =>
    /\ \A k \in 1..Len(commit_queue) :
          commit_queue[k].type = "done" =>
              (commit_queue[k].success <=> InCart(commit_queue[k].idx))
    /\ \A k \in 1..Len(commit_queue) :
          commit_queue[k].type = "complete" =>
              commit_queue[k].failed <=
                  Cardinality({i \in DOMAIN commit_items_data : ~InCart(i)})

\* C36: no row of a session's form is sent to the cart twice, whatever
\* requests arrive after the first commit.
C36_AtMostOnce ==
    \A k1, k2 \in 1..Len(cart) : cart[k1].idx = cart[k2].idx => k1 = k2

\* C38: once _run_order has ended a session in error, the session holds no
\* open catalog client.
C38_ErrorClosesClient ==
    (session_status = "error" /\ ro_pc = "end") => instacart_client # "open"

\* the alias texts of an item, and its product ids in rank order
AliasTextsOf(al, gid) == {a.alias : a \in {x \in al : x.grocery_item_id = gid}}
IdsByRank(pp, gid) ==
    LET rows == order_by_rank(ProductsOf(pp, gid))
    IN [i \in 1..Len(rows) |-> rows[i].id]

\* C35: merge_items(source, target) deletes source and leaves target with
\* its own and source's aliases, and with its own products followed by
\* source's products in source rank order, on ranks 1..n.
C35_MergeMoves ==
    [][(last'.op = "merge_items" /\ last' # last) =>
        LET source_id == last'.args[1]
            target_id == last'.args[2]
        IN /\ \A g \in grocery_items' : g.id # source_id
           /\ AliasTextsOf(aliases', target_id)
                 = AliasTextsOf(aliases, target_id) \cup AliasTextsOf(aliases, source_id)
           /\ IdsByRank(preferred_products', target_id)
                 = IdsByRank(preferred_products, target_id)
                      \o IdsByRank(preferred_products, source_id)
           /\ RanksOf(preferred_products', target_id)
                 = 1..Cardinality(ProductsOf(preferred_products', target_id))
    ]_vars

\* C33: promote_product never meets the (item, rank) constraint: none of
\* its flushes finds two products of an item on one rank, so it ends
\* without an integrity error and leaves the ranks of every item distinct.
C33_PromoteNoClash ==
    last.op = "promote_product" =>
        /\ last.exc = "none"
        /\ UniqueRank(preferred_products)

\* C33 witness: a product was promoted from rank 3 to rank 2 and the product
\* that was above it now holds rank 3.
C33_Witness ==
    /\ last.op = "promote_product"
    /\ \E p, q, r \in preferred_products :
          /\ p.id = last.args[1]
          /\ q.grocery_item_id = p.grocery_item_id
          /\ r.grocery_item_id = p.grocery_item_id
          /\ p.rank = 2
          /\ q.rank = 3
          /\ r.rank = 1

\* C39: no rank-shifting operation meets the (item, rank) constraint in the
\* middle of its row writes.
C39_ShiftNoClash ==
    last.op \in {"add_preferred_product", "make_product_top_choice", "delete_product"}
        => last.exc # "IntegrityError"

\* the operations that write preferred products: the calls of the commit
\* tasks' learning and the preference edits
RankWriters ==
    {"add_preferred_product", "make_product_top_choice", "promote_product",
     "delete_product"}

\* C32: after every write of preferred products, in whatever order the
\* commit tasks and the preference edits take their turns, the ranks of the
\* written item's products are exactly 1..n and no product is stored twice.
C32_WritersKeepRanks ==
    last.op \in RankWriters =>
        \A g \in grocery_items :
            LET mine == ProductsOf(preferred_products, g.id)
            IN /\ {p.rank : p \in mine} = 1..Cardinality(mine)
               /\ \A p, q \in mine :
                     (p.product_name = q.product_name /\ p.product_url = q.product_url)
                         => p.id = q.id

====
